---- MODULE Spec2Model ----
(***************************************************************************)
(* Triggered frame recorders of the 2p_stimuli rig.                        *)
(*                                                                         *)
(*   Heart_tracking_2.py   run(), record_video(), configure_camera_for_*,  *)
(*                         CommandListener                                 *)
(*   Heart_tracking_2p.py  FLIRCameraController                            *)
(*                                                                         *)
(* The camera SDK, the video encoder, the trigger line, the clock and the  *)
(* operator are the environment: every SDK call returns one of the         *)
(* outcomes the SDK can produce, chosen nondeterministically.              *)
(* Time is counted in whole seconds.                                       *)
(***************************************************************************)
EXTENDS Integers, Sequences, FiniteSets, TLC

----------------------------------------------------------------------------
(* Bounds of the model *)

\* largest number of GetNextImage calls explored in one record_video call,
\* when record_video is exercised alone and when it runs inside run()
MaxPulls == 5
MaxPullsRun == 2
\* largest recording number FLIRCameraController starts a recording with
MaxRecordings == 2
\* largest cfg.duration_s * cfg.fps (target_frames) explored
MaxTarget == 2
\* largest cfg.max_triggered_s explored, in seconds
MaxCap == 2
\* largest number of recordings named in a row by next_2p_name
MaxNamed == 3
MaxSamples == 6
MaxTrials == 2
MaxPollers == 2
MaxStops == 2
\* largest vigor / |velocity| the estimator gives
MaxVigor == 3
\* last clock reading explored, in ms
MaxClock == 9

(* Program constants *)

\* cfg.timeout_ms = 2000, in seconds
TimeoutS == 2
\* "consecutive_timeouts >= 3"
TimeoutThreshold == 3

----------------------------------------------------------------------------
VARIABLES
    prog,                 \* what is exercised: "record_video" (one call of
                          \* it), "heart2" (Heart_tracking_2.py as a whole),
                          \* "heart2p" (Heart_tracking_2p.py)
    \* ---- Heart_tracking_2.py ------------------------------------------
    pc,                   \* position of the main thread
    exit_code,            \* process exit status once pc = "exited"
    cfg,                  \* CaptureConfig (parse_args)
    acq_stop_entry,       \* camera offers TriggerSelector = AcquisitionStop
    acq_stop_configured,  \* cfg._acq_stop_configured
    cam,                  \* [init, streaming, releases] of the camera handle
    acq,                  \* observer: [streaming, ok]: the acquisition state
                          \* that the calls made so far lead to, and whether
                          \* each call was made in a state that allows it
    nodemap,              \* [TriggerSelector, TriggerMode[selector]]
    last_cmd,             \* CommandListener.last_cmd
    listener,             \* "new" | "running" | "stopped" (thread of _run)
    cmd,                  \* local of pop() / run(): the command being handled
    caller,               \* call site of record_video: "startup" | "r" | "t",
                          \* "call" when record_video is exercised alone
    wait_first,           \* wait_for_trigger_first_frame
    frames_written,
    started,
    consecutive_timeouts,
    line_status,          \* "HIGH" | "LOW" | "None"
    t0,
    recorder,             \* "none" | "open" | "closed"
    now,                  \* time.time()
    \* ---- observers (not program state) --------------------------------
    opens,                \* SpinVideo.Open calls that succeeded in this call
    closes,               \* SpinVideo.Close calls in this call
    n_open,               \* output files currently open
    appended,             \* frames appended to the open recorder
    pulls,                \* GetNextImage calls of this record_video call
    delivered,            \* complete frames the source yielded in this call
    hist,                 \* shape of the source history, see HistNext
    timeouts_in_row,      \* consecutive GetNextImage timeouts just absorbed
    saw_high,             \* a sample of the line read HIGH in this call
    t_first,              \* time of the first frame (rising edge)
    stop_reason,          \* which "[INFO] ... -> stopping" line was printed
    last_msg,             \* last status line printed to the operator
    failure,              \* what made the last attempt fail, "none" if nothing
    \* ---- Heart_tracking_2p.py : FLIRCameraController --------------------
    mode,                 \* self.mode: "free-run" | "triggered"
    recording,            \* self.recording
    video_writer,         \* self.video_writer: "None", "open" (isOpened()),
                          \* "unopened" (a writer that failed to open)
    waiting_for_trigger,  \* self.waiting_for_trigger
    running,              \* self.running
    current_recording_number,
    \* ---- Heart_tracking_2.py : next_2p_name ----------------------------
    dir_present,          \* dest_dir exists
    files,                \* names of the files in dest_dir
    base_prefix,          \* argument base_prefix (cfg.base_prefix)
    ext,                  \* argument ext
    out,                  \* what the last call returned, NoName before it
    seen,                 \* observer: os.listdir(dest_dir) of the last call
    rec_nums,             \* observer: new_num of every recording so far
    calls,                \* observer: calls of next_2p_name alone in a row
    \* ---- Heart_tracking_2.py : optional camera settings ----------------
    optional,             \* the nodes PixelFormat, ExposureAuto, ExposureTime,
                          \* GainAuto, Gain: "default" or the value written
    optcfg,               \* cfg.exposure_us, cfg.gain_db: "None" or "set"
    conf,                 \* observer: the last configure_camera_for_* call
    \* ---- edge detectors: DAQEdgeMonitor, NIRiseOnlyTrigger, ----------
    \* ---- NIRiseFallTrigger, fed one sample per call -------------------
    det,                  \* which detector: "monitor", "rise_only", "rise_fall"
    trig,                 \* [prev_above, armed, stopped]: _prev_state of the
                          \* monitor, _prev_above / _armed / _stopped of a trigger
    phase,                \* "polling": check_trigger is called (the monitor
                          \* polls); "running": the experiment runs, update()
    samples,              \* observer: the samples the detector was given
    reports,              \* observer: what it reported for each of them
    trial,                \* observer: times check_trigger returned True
    upd,                  \* observer: the last update() call of the experiment
    \* ---- closed_loop_dots_2.py : DAQEdgeMonitor and VisualStim_dots ---
    mon,                  \* the monitor: [stop_flag, rising_edge_event,
                          \* falling_edge_event, prev_state, thread]
    pollers,              \* the polling threads ever created: [pc, state,
                          \* first]; state is the local sample, first an
                          \* observer: the sample is the first one taken
                          \* since the last start()
    proto,                \* the protocol: [pc, rising_edge_time,
                          \* falling_edge_time, sequence_aborted]
    trialobs,             \* observer of the current start() call
    monobs,               \* observer of the monitor
    \* ---- VigorResponsiveDotStim.py : the vigor-triggered blackout -----
    stim,                 \* the stimulus: [vigor_threshold, hysteresis,
                          \* blackout_min_ms, blackout, last_switch_ms]
    clock,                \* int(time.time() * 1000)
    vobs                  \* observer: the last update() call

heart2Vars == <<pc, exit_code, cfg, acq_stop_entry, acq_stop_configured, cam,
                acq,
                nodemap, last_cmd, listener, cmd, caller, wait_first,
                frames_written, started, consecutive_timeouts, line_status,
                t0, recorder, now, opens, closes, n_open, appended, pulls,
                delivered, hist, timeouts_in_row, saw_high, t_first,
                stop_reason, last_msg, failure>>

ctlVars == <<mode, recording, video_writer, waiting_for_trigger, running,
             current_recording_number>>

namerVars == <<dir_present, files, base_prefix, ext, out, seen, rec_nums,
               calls>>

confVars == <<optional, optcfg, conf>>

edgeVars == <<det, trig, phase, samples, reports, trial, upd>>

daqVars == <<mon, pollers, proto, trialobs, monobs>>

vigorVars == <<stim, clock, vobs>>

auxVars == <<confVars, edgeVars, daqVars, vigorVars>>

vars == <<prog, heart2Vars, ctlVars, namerVars, auxVars>>

----------------------------------------------------------------------------
(* Heart_tracking_2.py : configuration *)

Selectors == {"FrameStart", "AcquisitionStart", "AcquisitionStop"}

NoCap == <<>>
HasCap(c) == c.max_triggered_s # NoCap
CapS(c) == c.max_triggered_s[1]

Configs ==
    [triggered : BOOLEAN,
     stop_on_falling : BOOLEAN,
     max_triggered_s : {NoCap} \cup {<<s>> : s \in 1..MaxCap},
     use_acquisition_stop : BOOLEAN,
     target_frames : 1..MaxTarget]

\* _set_enum(nodemap, "TriggerMode", v): TriggerMode is the mode of the
\* trigger that TriggerSelector currently selects
SetTriggerMode(nm, v) ==
    [nm EXCEPT !.TriggerMode[nm.TriggerSelector] = v]

SetTriggerSelector(nm, s) == [nm EXCEPT !.TriggerSelector = s]

\* configure_camera_for_freerun.  fp is the mandatory _set_enum that
\* raises: 0 none, 1 AcquisitionMode, 2 TriggerMode
FreerunFail == 0..2
configure_camera_for_freerun(nm, fp) ==
    IF fp = 1 THEN [nm |-> nm, ok |-> FALSE]
    ELSE IF fp = 2 THEN [nm |-> nm, ok |-> FALSE]
    ELSE [nm |-> SetTriggerMode(nm, "Off"), ok |-> TRUE]

\* configure_camera_for_triggered.
\*   offok  the best-effort _try_set_enum(TriggerMode, Off) went through
\*   fp     the mandatory _set_enum that raises: 0 none, 1 AcquisitionMode,
\*          2 TriggerSelector, 3 TriggerSource / TriggerActivation / TriggerMode
\*   sp     the AcquisitionStop _set_enum that raises (caught): 0 none,
\*          1 TriggerSelector, 2 TriggerSource / TriggerActivation / TriggerMode
TriggeredFail == 0..3
AcqStopFail == 0..2

\* configure_camera_for_triggered where a failed AcquisitionStop
\* configuration leaves the function like a mandatory one
configure_camera_for_triggered_StopFatal(nm, c, entry, offok, fp, sp) ==
    LET nm1 == IF offok THEN SetTriggerMode(nm, "Off") ELSE nm
        nm2 == SetTriggerSelector(nm1, "AcquisitionStart")
        nm3 == SetTriggerMode(nm2, "On")
        nm4 == SetTriggerSelector(nm3, "AcquisitionStop")
        nm5 == SetTriggerMode(nm4, "On")
    IN  IF fp = 1 THEN [nm |-> nm, ok |-> FALSE, acq |-> FALSE]
        ELSE IF fp = 2 THEN [nm |-> nm1, ok |-> FALSE, acq |-> FALSE]
        ELSE IF fp = 3 THEN [nm |-> nm2, ok |-> FALSE, acq |-> FALSE]
        ELSE IF c.use_acquisition_stop /\ entry
             THEN IF sp = 0 THEN [nm |-> nm5, ok |-> TRUE, acq |-> TRUE]
                  ELSE IF sp = 1 THEN [nm |-> nm3, ok |-> FALSE, acq |-> FALSE]
                  ELSE [nm |-> nm4, ok |-> FALSE, acq |-> FALSE]
             ELSE [nm |-> nm3, ok |-> TRUE, acq |-> FALSE]

\* configure_camera_for_triggered(cam, cfg)
configure_camera_for_triggered(nm, c, entry, offok, fp, sp) ==
    LET nm1 == IF offok THEN SetTriggerMode(nm, "Off") ELSE nm
        nm2 == SetTriggerSelector(nm1, "AcquisitionStart")
        nm3 == SetTriggerMode(nm2, "On")
        nm4 == SetTriggerSelector(nm3, "AcquisitionStop")
        nm5 == SetTriggerMode(nm4, "On")
    IN  IF fp = 1 THEN [nm |-> nm, ok |-> FALSE, acq |-> FALSE]
        ELSE IF fp = 2 THEN [nm |-> nm1, ok |-> FALSE, acq |-> FALSE]
        ELSE IF fp = 3 THEN [nm |-> nm2, ok |-> FALSE, acq |-> FALSE]
        ELSE IF c.use_acquisition_stop /\ entry
             THEN IF sp = 0 THEN [nm |-> nm5, ok |-> TRUE, acq |-> TRUE]
                  ELSE IF sp = 1 THEN [nm |-> nm3, ok |-> TRUE, acq |-> FALSE]
                  ELSE [nm |-> nm4, ok |-> TRUE, acq |-> FALSE]
             ELSE [nm |-> nm3, ok |-> TRUE, acq |-> FALSE]

----------------------------------------------------------------------------
(* Heart_tracking_2.py : initial state *)

Commands == {"t", "r", "q", "h", "x"}   \* "x": any other line

\* FLIRCameraController.__init__
InitCtlVars ==
    /\ mode = "free-run"
    /\ recording = FALSE
    /\ video_writer = "None"
    /\ waiting_for_trigger = FALSE
    /\ running = TRUE
    /\ current_recording_number = 1

\* what every entry point starts with
InitRest ==
    /\ exit_code = 0
    /\ acq = [streaming |-> cam.streaming, ok |-> TRUE]
    /\ acq_stop_configured = FALSE
    /\ last_cmd = "None"
    /\ listener = "new"
    /\ cmd = "None"
    /\ frames_written = 0
    /\ started = FALSE
    /\ consecutive_timeouts = 0
    /\ line_status = "None"
    /\ t0 = 0
    /\ now = 0
    /\ closes = 0
    /\ appended = 0
    /\ pulls = 0
    /\ delivered = 0
    /\ hist = "frames"
    /\ timeouts_in_row = 0
    /\ saw_high = FALSE
    /\ t_first = 0
    /\ stop_reason = "none"
    /\ failure = "none"

\* power-on defaults of the node map
NodemapDefault == [TriggerSelector |-> "FrameStart",
                   TriggerMode |-> [s \in Selectors |-> "Off"]]

\* the configurations explored when the whole of run() is exercised
RunConfigs == {c \in Configs : c.target_frames = 1 /\
                               c.max_triggered_s \in {NoCap, <<1>>}}

InitHeart2 ==
    /\ pc = "start"
    /\ cfg \in RunConfigs
    /\ acq_stop_entry \in BOOLEAN
    /\ cam = [init |-> FALSE, streaming |-> FALSE, releases |-> 0]
    /\ nodemap = NodemapDefault
    /\ caller = "none"
    /\ wait_first = FALSE
    /\ recorder = "none"
    /\ opens = 0
    /\ n_open = 0
    /\ last_msg = "none"
    /\ InitRest
    /\ InitCtlVars

\* one call record_video(cam, cfg, wait_for_trigger_first_frame), seen from
\* its first loop on: the camera is streaming, armed when the call waits for
\* the trigger, and the recorder was opened
InitRecord ==
    /\ cfg \in {c \in Configs : ~c.triggered /\ ~c.use_acquisition_stop}
    /\ acq_stop_entry = FALSE
    /\ cam = [init |-> TRUE, streaming |-> TRUE, releases |-> 0]
    /\ wait_first \in BOOLEAN
    /\ nodemap = IF wait_first
                 THEN configure_camera_for_triggered(NodemapDefault, cfg,
                                                     FALSE, TRUE, 0, 0).nm
                 ELSE NodemapDefault
    /\ caller = "call"
    /\ pc = IF wait_first THEN "rv_wait" ELSE "rv_free"
    /\ recorder = "open"
    /\ opens = 1
    /\ n_open = 1
    /\ last_msg = "recording"
    /\ InitRest
    /\ InitCtlVars

----------------------------------------------------------------------------
(* Heart_tracking_2.py : frames of unchanged variables *)

recLocals == <<caller, wait_first, frames_written, started,
               consecutive_timeouts, line_status, t0, recorder, now>>
recObservers == <<opens, closes, n_open, appended, pulls, delivered, hist,
                  timeouts_in_row, saw_high, t_first, stop_reason>>
cameraVars == <<acq_stop_configured, cam, nodemap>>

\* an exception leaves run(): the finally clause de-initialises the camera and
\* releases the system, __main__ prints "[ERROR] ..." and exits with status 1
Crash(why, nm, cm) ==
    /\ pc' = "exited"
    /\ exit_code' = 1
    /\ cam' = [cm EXCEPT !.init = FALSE, !.releases = @ + 1]
    /\ nodemap' = nm
    /\ last_msg' = "error"
    /\ failure' = why
    /\ listener' = IF listener = "running" THEN "stopped" ELSE listener

\* record_video_entry with the recorder opened only once the first frame
\* has arrived
record_video_entry_OpenLater(wait, site) ==
    /\ caller' = site
    /\ wait_first' = wait
    /\ frames_written' = 0
    /\ started' = FALSE
    /\ consecutive_timeouts' = 0
    /\ line_status' = "None"
    /\ t0' = now
    /\ now' = now
    /\ recorder' = IF wait THEN "none" ELSE "open"
    /\ opens' = IF wait THEN 0 ELSE 1
    /\ closes' = 0
    /\ n_open' = IF wait THEN n_open ELSE n_open + 1
    /\ appended' = 0
    /\ pulls' = 0
    /\ delivered' = 0
    /\ hist' = "frames"
    /\ timeouts_in_row' = 0
    /\ saw_high' = FALSE
    /\ t_first' = 0
    /\ stop_reason' = "none"
    /\ pc' = IF wait THEN "rv_wait" ELSE "rv_free"
    /\ last_msg' = "recording"
    /\ failure' = "none"

\* record_video up to its first loop: next_2p_name, _create_avi_recorder,
\* t0, frames_written, started
record_video_entry(wait, site) ==
    /\ caller' = site
    /\ wait_first' = wait
    /\ frames_written' = 0
    /\ started' = FALSE
    /\ consecutive_timeouts' = 0
    /\ line_status' = "None"
    /\ t0' = now
    /\ now' = now
    /\ recorder' = "open"
    /\ opens' = 1
    /\ closes' = 0
    /\ n_open' = n_open + 1
    /\ appended' = 0
    /\ pulls' = 0
    /\ delivered' = 0
    /\ hist' = "frames"
    /\ timeouts_in_row' = 0
    /\ saw_high' = FALSE
    /\ t_first' = 0
    /\ stop_reason' = "none"
    /\ pc' = IF wait THEN "rv_wait" ELSE "rv_free"
    /\ last_msg' = "recording"
    /\ failure' = "none"

FreerunWhy(fp) == IF fp = 1 THEN "acq_mode" ELSE "trigger_cfg"
TriggeredWhy(fp) == IF fp = 1 THEN "acq_mode" ELSE "trigger_cfg"

----------------------------------------------------------------------------
(* Heart_tracking_2.py : run(), start-up *)

Streaming(cm, b) == [cm EXCEPT !.streaming = b]

\* The calls run() makes on the camera, in order: "Begin" BeginAcquisition,
\* "End" EndAcquisition, "Cfg" configure_camera_for_freerun / _triggered
\* (also when it raises), "Rec" record_video.  CamOp follows one call: Begin
\* wants acquisition ended, End and Rec want it begun, Cfg wants it ended
CamOp(st, op) ==
    IF op = "Begin" THEN [streaming |-> TRUE, ok |-> st.ok /\ ~st.streaming]
    ELSE IF op = "End" THEN [streaming |-> FALSE, ok |-> st.ok /\ st.streaming]
    ELSE IF op = "Cfg" THEN [st EXCEPT !.ok = st.ok /\ ~st.streaming]
    ELSE [st EXCEPT !.ok = st.ok /\ st.streaming]

RECURSIVE RunOps(_, _)
RunOps(st, ops) ==
    IF ops = <<>> THEN st ELSE RunOps(CamOp(st, Head(ops)), Tail(ops))

\* lines 461-464 and 507-513: arm and record; fp # 0: the configuration raises
ArmOps(fp) ==
    IF fp # 0 THEN <<"End", "Cfg">> ELSE <<"End", "Cfg", "Begin", "Rec">>

\* lines 453-464: start-up
StartOps(fp0, fp) ==
    IF fp0 # 0 THEN <<"Cfg">>
    ELSE <<"Cfg", "Begin">> \o (IF cfg.triggered THEN ArmOps(fp) ELSE <<>>)

\* lines 497-502: "r"
FreeRecOps(fp) ==
    IF fp # 0 THEN <<"End", "Cfg">> ELSE <<"End", "Cfg", "Begin", "Rec">>

\* ReturnOps reconfiguring without EndAcquisition
ReturnOps_NoEnd(site, fp) ==
    IF site = "r" THEN <<>>
    ELSE IF fp # 0 THEN <<"Cfg">> ELSE <<"Cfg", "Begin">>

\* lines 467-469 and 516-518: back to free-run after a triggered recording
ReturnOps(site, fp) ==
    IF site = "r" THEN <<>>
    ELSE IF fp # 0 THEN <<"End", "Cfg">> ELSE <<"End", "Cfg", "Begin">>

\* line 527
QuitOps == <<"End">>

\* GetCameras() finds no camera: the list and the system are released before
\* the try, RuntimeError reaches __main__
StartNoCamera ==
    /\ pc = "start"
    /\ pc' = "exited"
    /\ exit_code' = 1
    /\ cam' = [cam EXCEPT !.releases = @ + 1]
    /\ last_msg' = "error"
    /\ failure' = "no_camera"
    /\ UNCHANGED <<prog, namerVars, auxVars, acq, ctlVars, cfg, acq_stop_entry, acq_stop_configured, nodemap,
                   last_cmd, listener, cmd, recLocals, recObservers>>

\* cam.Init() raises: it stands before the try, nothing is released
StartInitFails ==
    /\ pc = "start"
    /\ pc' = "exited"
    /\ exit_code' = 1
    /\ last_msg' = "error"
    /\ failure' = "cam_init"
    /\ UNCHANGED <<prog, namerVars, auxVars, acq, ctlVars, cfg, acq_stop_entry, cameraVars, last_cmd, listener,
                   cmd, recLocals, recObservers>>

\* EndAcquisition, configure_camera_for_triggered, BeginAcquisition and
\* record_video(wait_for_trigger_first_frame=True) up to its first loop;
\* nm and cm are the node map and the camera handle before the sequence
ArmAndRecord(site, nm, cm, offok, fp, sp, openok) ==
    LET r == configure_camera_for_triggered(nm, cfg, acq_stop_entry,
                                            offok, fp, sp)
    IN  IF ~r.ok
        THEN /\ Crash(TriggeredWhy(fp), r.nm, Streaming(cm, FALSE))
             /\ UNCHANGED <<acq_stop_configured, recLocals, recObservers>>
        ELSE IF ~openok
        THEN /\ Crash("open", r.nm, Streaming(cm, TRUE))
             /\ acq_stop_configured' = r.acq
             /\ UNCHANGED <<recLocals, recObservers>>
        ELSE /\ record_video_entry(TRUE, site)
             /\ cam' = Streaming(cm, TRUE)
             /\ nodemap' = r.nm
             /\ acq_stop_configured' = r.acq
             /\ exit_code' = exit_code
             /\ listener' = listener

\* run() from cam.Init() to the command loop (cfg.triggered = False) or into
\* the start-up triggered recording (cfg.triggered = True)
Start(fp0, offok, fp, sp, openok) ==
    /\ pc = "start"
    /\ LET r0 == configure_camera_for_freerun(nodemap, fp0)
           cm0 == [cam EXCEPT !.init = TRUE]
       IN  IF ~r0.ok
           THEN /\ Crash(FreerunWhy(fp0), r0.nm, cm0)
                /\ UNCHANGED <<acq_stop_configured, recLocals, recObservers>>
           ELSE IF cfg.triggered
           THEN ArmAndRecord("startup", r0.nm, cm0, offok, fp, sp, openok)
           ELSE /\ cam' = Streaming(cm0, TRUE)
                /\ nodemap' = r0.nm
                /\ listener' = "running"
                /\ pc' = "cmd_loop"
                /\ last_msg' = "ready"
                /\ UNCHANGED <<exit_code, acq_stop_configured, failure,
                               recLocals, recObservers>>
    /\ acq' = RunOps(acq, StartOps(fp0, fp))
    /\ UNCHANGED <<prog, namerVars, auxVars, ctlVars, cfg, acq_stop_entry, last_cmd, cmd>>

----------------------------------------------------------------------------
(* Heart_tracking_2.py : CommandListener and the command loop *)

\* CommandListener._run: one line read from stdin
ListenerRun(c) ==
    /\ listener = "running"
    /\ last_cmd' = c
    /\ UNCHANGED <<prog, namerVars, auxVars, acq, ctlVars, pc, exit_code, cfg, acq_stop_entry, cameraVars,
                   listener, cmd, recLocals, recObservers, last_msg, failure>>

\* CommandListener._run: EOF on stdin
ListenerEOF ==
    /\ listener = "running"
    /\ listener' = "stopped"
    /\ UNCHANGED <<prog, namerVars, auxVars, acq, ctlVars, pc, exit_code, cfg, acq_stop_entry, cameraVars,
                   last_cmd, cmd, recLocals, recObservers, last_msg, failure>>

\* CommandListener.pop, first statement: cmd = self.last_cmd
PopRead ==
    /\ pc = "cmd_loop"
    /\ cmd' = last_cmd
    /\ pc' = "pop_clear"
    /\ UNCHANGED <<prog, namerVars, auxVars, acq, ctlVars, exit_code, cfg, acq_stop_entry, cameraVars, last_cmd,
                   listener, recLocals, recObservers, last_msg, failure>>

\* pop's second statement, self.last_cmd = None, then the branch of run()
\* for no command, "h" and an unknown command
CmdIdle ==
    /\ pc = "pop_clear"
    /\ cmd \in {"None", "h", "x"}
    /\ last_cmd' = "None"
    /\ pc' = "cmd_loop"
    /\ last_msg' = IF cmd = "None" THEN last_msg
                   ELSE IF cmd = "h" THEN "help" ELSE "unknown"
    /\ UNCHANGED <<prog, namerVars, auxVars, acq, ctlVars, exit_code, cfg, acq_stop_entry, cameraVars, listener,
                   cmd, recLocals, recObservers, failure>>

\* "q": break, listener.stop(), EndAcquisition, finally, normal exit
CmdQuit ==
    /\ pc = "pop_clear"
    /\ cmd = "q"
    /\ last_cmd' = "None"
    /\ pc' = "exited"
    /\ exit_code' = 0
    /\ listener' = "stopped"
    /\ cam' = [cam EXCEPT !.streaming = FALSE, !.init = FALSE,
                          !.releases = @ + 1]
    /\ last_msg' = "quitting"
    /\ acq' = RunOps(acq, QuitOps)
    /\ UNCHANGED <<prog, namerVars, auxVars, ctlVars, cfg, acq_stop_entry, acq_stop_configured, nodemap,
                   cmd, recLocals, recObservers, failure>>

\* "r": EndAcquisition, configure_camera_for_freerun, BeginAcquisition,
\* record_video(wait_for_trigger_first_frame=False) up to its loop
CmdR(fp, openok) ==
    /\ pc = "pop_clear"
    /\ cmd = "r"
    /\ last_cmd' = "None"
    /\ LET r == configure_camera_for_freerun(nodemap, fp)
       IN  IF ~r.ok
           THEN /\ Crash(FreerunWhy(fp), r.nm, Streaming(cam, FALSE))
                /\ UNCHANGED <<recLocals, recObservers>>
           ELSE IF ~openok
           THEN /\ Crash("open", r.nm, Streaming(cam, TRUE))
                /\ UNCHANGED <<recLocals, recObservers>>
           ELSE /\ record_video_entry(FALSE, "r")
                /\ cam' = Streaming(cam, TRUE)
                /\ nodemap' = r.nm
                /\ UNCHANGED <<exit_code, listener>>
    /\ acq' = RunOps(acq, FreeRecOps(fp))
    /\ UNCHANGED <<prog, namerVars, auxVars, ctlVars, cfg, acq_stop_entry, acq_stop_configured, cmd>>

\* "t": arm the trigger and enter record_video
CmdT(offok, fp, sp, openok) ==
    /\ pc = "pop_clear"
    /\ cmd = "t"
    /\ last_cmd' = "None"
    /\ ArmAndRecord("t", nodemap, cam, offok, fp, sp, openok)
    /\ acq' = RunOps(acq, ArmOps(fp))
    /\ UNCHANGED <<prog, namerVars, auxVars, ctlVars, cfg, acq_stop_entry, cmd>>

----------------------------------------------------------------------------
(* Heart_tracking_2.py : record_video, the loops *)

\* what cam.GetNextImage + recorder.Append can do in one iteration:
\*   "frame"         a complete image, appended
\*   "incomplete"    img.IsIncomplete()
\*   "timeout"       GetNextImage raises SpinnakerException
\*   "append_error"  a complete image, recorder.Append raises SpinnakerException
\*   "release_error" a complete image, appended, img.Release raises
\*                   SpinnakerException
Outcomes == {"frame", "incomplete", "timeout", "append_error", "release_error"}

\* seconds one iteration takes: an image arrives before the timeout,
\* an exception is raised at the timeout at the latest
PullTimes(o) == IF o = "timeout" THEN 0..TimeoutS ELSE 0..(TimeoutS - 1)

\* read_line_status: True, False, or None when LineStatus is not readable
LineReads == {"HIGH", "LOW", "None"}

\* the source history so far: "frames" = complete frames only,
\* "timeouts" = complete frames (at least one) then timeouts only
HistNext(h, o, n) ==
    IF o = "frame" THEN (IF h = "frames" THEN "frames" ELSE "other")
    ELSE IF o = "timeout"
         THEN (IF h = "timeouts" \/ (h = "frames" /\ n >= 1)
               THEN "timeouts" ELSE "other")
    ELSE "other"

ObservePull(o, d) ==
    /\ pulls' = pulls + 1
    /\ delivered' = IF o \in {"frame", "append_error", "release_error"}
                    THEN delivered + 1 ELSE delivered
    /\ hist' = HistNext(hist, o, delivered)
    /\ timeouts_in_row' = IF o = "timeout" THEN timeouts_in_row + 1 ELSE 0
    /\ now' = now + d

PullBound == IF prog = "record_video" THEN MaxPulls ELSE MaxPullsRun

\* line 309
triggered_stop == wait_first /\ cfg.stop_on_falling

\* RecWaitIter giving the recording up at a timeout before the first frame
RecWaitIter_GivesUp(o, d, ls) ==
    /\ pc = "rv_wait"
    /\ pulls < PullBound
    /\ d \in PullTimes(o)
    /\ ObservePull(o, d)
    /\ IF o = "frame"
       THEN /\ appended' = appended + 1
            /\ frames_written' = 1
            /\ started' = TRUE
            /\ t_first' = now + d
            /\ IF triggered_stop
               THEN /\ line_status' = ls
                    /\ saw_high' = (ls = "HIGH")
                    /\ pc' = "rv_trig"
               ELSE /\ ls = "None"
                    /\ pc' = "rv_free"
                    /\ UNCHANGED <<line_status, saw_high>>
            /\ last_msg' = "trigger_received"
       ELSE /\ ls = "None"
            /\ appended' = IF o = "release_error" THEN appended + 1
                           ELSE appended
            /\ pc' = IF o = "timeout" THEN "rv_close" ELSE pc
            /\ UNCHANGED <<frames_written, started, t_first,
                           line_status, saw_high, last_msg>>
    /\ UNCHANGED <<prog, namerVars, auxVars, acq, ctlVars, exit_code, cfg, acq_stop_entry, cameraVars, last_cmd,
                   listener, cmd, caller, wait_first, consecutive_timeouts,
                   t0, recorder, opens, closes, n_open, stop_reason, failure>>

\* one iteration of the loop that waits for the first triggered frame
RecWaitIter(o, d, ls) ==
    /\ pc = "rv_wait"
    /\ pulls < PullBound
    /\ d \in PullTimes(o)
    /\ ObservePull(o, d)
    /\ IF o = "frame"
       THEN /\ appended' = appended + 1
            /\ frames_written' = 1
            /\ started' = TRUE
            /\ t_first' = now + d
            /\ IF triggered_stop
               THEN /\ line_status' = ls
                    /\ saw_high' = (ls = "HIGH")
                    /\ pc' = "rv_trig"
               ELSE /\ ls = "None"
                    /\ pc' = "rv_free"
                    /\ UNCHANGED <<line_status, saw_high>>
            /\ last_msg' = "trigger_received"
       ELSE /\ ls = "None"
            /\ appended' = IF o = "release_error" THEN appended + 1
                           ELSE appended
            /\ UNCHANGED <<frames_written, started, t_first,
                           line_status, saw_high, pc, last_msg>>
    /\ UNCHANGED <<prog, namerVars, auxVars, acq, ctlVars, exit_code, cfg, acq_stop_entry, cameraVars, last_cmd,
                   listener, cmd, caller, wait_first, consecutive_timeouts,
                   t0, recorder, opens, closes, n_open, stop_reason, failure>>

\* RecFreeDone leaving the loop one frame early
RecFreeDone_Early ==
    /\ pc = "rv_free"
    /\ frames_written >= cfg.target_frames - 1
    /\ pc' = "rv_close"
    /\ stop_reason' = "frame_count"
    /\ UNCHANGED <<prog, namerVars, auxVars, acq, ctlVars, exit_code, cfg, acq_stop_entry, cameraVars, last_cmd,
                   listener, cmd, recLocals, opens, closes, n_open, appended,
                   pulls, delivered, hist, timeouts_in_row, saw_high, t_first,
                   last_msg, failure>>

\* the free-run loop condition is false: frames_written >= target_frames
RecFreeDone ==
    /\ pc = "rv_free"
    /\ frames_written >= cfg.target_frames
    /\ pc' = "rv_close"
    /\ stop_reason' = "frame_count"
    /\ UNCHANGED <<prog, namerVars, auxVars, acq, ctlVars, exit_code, cfg, acq_stop_entry, cameraVars, last_cmd,
                   listener, cmd, recLocals, opens, closes, n_open, appended,
                   pulls, delivered, hist, timeouts_in_row, saw_high, t_first,
                   last_msg, failure>>

\* one iteration of the free-run loop
RecFreeIter(o, d) ==
    /\ pc = "rv_free"
    /\ frames_written < cfg.target_frames
    /\ pulls < PullBound
    /\ d \in PullTimes(o)
    /\ ObservePull(o, d)
    /\ IF o = "frame"
       THEN /\ appended' = appended + 1
            /\ frames_written' = frames_written + 1
       ELSE IF o = "release_error"
       THEN /\ appended' = appended + 1
            /\ frames_written' = frames_written
       ELSE UNCHANGED <<appended, frames_written>>
    /\ UNCHANGED <<prog, namerVars, auxVars, acq, ctlVars, pc, exit_code, cfg, acq_stop_entry, cameraVars,
                   last_cmd, listener, cmd, caller, wait_first, started,
                   consecutive_timeouts, line_status, t0, recorder, opens,
                   closes, n_open, saw_high, t_first, stop_reason, last_msg,
                   failure>>

\* TrigStopCheck without the test of the line level
TrigStopCheck_IgnoresLine ==
    IF HasCap(cfg) /\ (now - t0) >= CapS(cfg) THEN "cap"
    ELSE "none"

\* TrigStopCheck with the safety cap tested before the line level
TrigStopCheck_CapFirst ==
    IF HasCap(cfg) /\ (now - t0) >= CapS(cfg) THEN "cap"
    ELSE IF line_status = "LOW" THEN "line_low"
    ELSE "none"

\* TrigStopCheck stopping on a falling edge only: a LOW sample counts once a
\* HIGH sample was read
TrigStopCheck_EdgeOnly ==
    IF line_status = "LOW" /\ saw_high THEN "line_low"
    ELSE IF HasCap(cfg) /\ (now - t0) >= CapS(cfg) THEN "cap"
    ELSE "none"

\* the stop conditions at the top of an iteration of the triggered loop
TrigStopCheck ==
    IF line_status = "LOW" THEN "line_low"
    ELSE IF HasCap(cfg) /\ (now - t0) >= CapS(cfg) THEN "cap"
    ELSE "none"

\* an iteration of the triggered loop that breaks at its top
RecTrigStop ==
    /\ pc = "rv_trig"
    /\ TrigStopCheck # "none"
    /\ stop_reason' = TrigStopCheck
    /\ pc' = "rv_close"
    /\ UNCHANGED <<prog, namerVars, auxVars, acq, ctlVars, exit_code, cfg, acq_stop_entry, cameraVars, last_cmd,
                   listener, cmd, recLocals, opens, closes, n_open, appended,
                   pulls, delivered, hist, timeouts_in_row, saw_high, t_first,
                   last_msg, failure>>

\* TimeoutStop one timeout late
TimeoutStop_Late(st, ct) == st /\ ct > TimeoutThreshold

\* TimeoutStop never giving up
TimeoutStop_Never(st, ct) == st /\ ct < 0

\* "if started and consecutive_timeouts >= 3"
TimeoutStop(st, ct) == st /\ ct >= TimeoutThreshold

\* an iteration of the triggered loop that pulls a frame
RecTrigIter(o, d, ls) ==
    /\ pc = "rv_trig"
    /\ TrigStopCheck = "none"
    /\ pulls < PullBound
    /\ d \in PullTimes(o)
    /\ ObservePull(o, d)
    /\ LET ct == IF o = "timeout" THEN consecutive_timeouts + 1
                 ELSE IF o \in {"append_error", "release_error"} THEN 1
                 ELSE 0
           brk == o = "timeout" /\ TimeoutStop(started, ct)
       IN  /\ consecutive_timeouts' = ct
           /\ IF brk
              THEN /\ ls = "None"
                   /\ pc' = "rv_close"
                   /\ stop_reason' = "timeouts"
                   /\ UNCHANGED <<line_status, saw_high>>
              ELSE /\ line_status' = ls
                   /\ saw_high' = (saw_high \/ ls = "HIGH")
                   /\ UNCHANGED <<pc, stop_reason>>
    /\ IF o = "frame"
       THEN /\ appended' = appended + 1
            /\ frames_written' = frames_written + 1
       ELSE IF o = "release_error"
       THEN /\ appended' = appended + 1
            /\ frames_written' = frames_written
       ELSE UNCHANGED <<appended, frames_written>>
    /\ UNCHANGED <<prog, namerVars, auxVars, acq, ctlVars, exit_code, cfg, acq_stop_entry, cameraVars, last_cmd,
                   listener, cmd, caller, wait_first, started, t0, recorder,
                   opens, closes, n_open, t_first, last_msg, failure>>

\* RecClose without recorder.Close()
RecClose_Missing ==
    /\ pc = "rv_close"
    /\ pc' = "rv_ret"
    /\ last_msg' = "saved"
    /\ UNCHANGED <<prog, namerVars, auxVars, acq, ctlVars, exit_code, cfg, acq_stop_entry, cameraVars,
                   last_cmd, listener, cmd, recLocals, recObservers, failure>>

\* recorder.Close() and the "[INFO] Saved ..." lines
RecClose ==
    /\ pc = "rv_close"
    /\ recorder' = "closed"
    /\ closes' = closes + 1
    /\ n_open' = n_open - 1
    /\ pc' = "rv_ret"
    /\ last_msg' = "saved"
    /\ UNCHANGED <<prog, namerVars, auxVars, acq, ctlVars, exit_code, cfg, acq_stop_entry, cameraVars, last_cmd,
                   listener, cmd, caller, wait_first, frames_written, started,
                   consecutive_timeouts, line_status, t0, now, opens, appended,
                   pulls, delivered, hist, timeouts_in_row, saw_high, t_first,
                   stop_reason, failure>>

\* the locals of record_video go out of scope
LocalsGone ==
    /\ caller' = "none"
    /\ wait_first' = FALSE
    /\ frames_written' = 0
    /\ started' = FALSE
    /\ consecutive_timeouts' = 0
    /\ line_status' = "None"
    /\ t0' = 0
    /\ now' = 0
    /\ recorder' = "none"
    /\ opens' = 0
    /\ closes' = 0
    /\ appended' = 0
    /\ pulls' = 0
    /\ delivered' = 0
    /\ hist' = "frames"
    /\ timeouts_in_row' = 0
    /\ saw_high' = FALSE
    /\ t_first' = 0
    /\ stop_reason' = "none"
    /\ n_open' = n_open

\* record_video returns; after a triggered recording run() goes back to
\* free-run: EndAcquisition, configure_camera_for_freerun, BeginAcquisition,
\* "[INFO] Returned to free-run mode."
AfterRecord(fp) ==
    /\ pc = "rv_ret"
    /\ caller \in {"r", "t", "startup"}
    /\ IF caller = "r"
       THEN /\ fp = 0
            /\ pc' = "cmd_loop"
            /\ LocalsGone
            /\ UNCHANGED <<exit_code, cameraVars, listener, last_msg, failure>>
       ELSE LET r == configure_camera_for_freerun(nodemap, fp)
            IN  IF ~r.ok
                THEN /\ Crash(FreerunWhy(fp), r.nm, Streaming(cam, FALSE))
                     /\ UNCHANGED <<acq_stop_configured, recLocals,
                                    recObservers>>
                ELSE /\ nodemap' = r.nm
                     /\ cam' = Streaming(cam, TRUE)
                     /\ last_msg' = "returned_freerun"
                     /\ listener' = IF caller = "startup" THEN "running"
                                    ELSE listener
                     /\ pc' = "cmd_loop"
                     /\ LocalsGone
                     /\ UNCHANGED <<exit_code, acq_stop_configured, failure>>
    /\ acq' = RunOps(acq, ReturnOps(caller, fp))
    /\ UNCHANGED <<prog, namerVars, auxVars, ctlVars, cfg, acq_stop_entry, last_cmd, cmd>>

----------------------------------------------------------------------------
(* Heart_tracking_2.py : the optional settings of the two configure        *)
(* functions, and one call of either function on a camera                   *)

OptionalDefault == [PixelFormat |-> "default", ExposureAuto |-> "default",
                    ExposureTime |-> "default", GainAuto |-> "default",
                    Gain |-> "default"]

OptCfgs == [exposure_us : {"None", "set"}, gain_db : {"None", "set"}]

\* which statement of a try block raises: 0 none, 1 the first, 2 the second
TryFail == 0..2

\* the three try blocks that end both configure functions.  pf: PixelFormat
\* raises (0 or 1); ef, gf: the statement of the exposure / gain block that
\* raises.  Every exception is swallowed by "except Exception: pass"
optional_settings(o, oc, pf, ef, gf) ==
    LET o1 == IF pf = 0 THEN [o EXCEPT !.PixelFormat = "cfg"] ELSE o
        o2 == IF oc.exposure_us = "None" \/ ef = 1 THEN o1
              ELSE IF ef = 2 THEN [o1 EXCEPT !.ExposureAuto = "Off"]
              ELSE [o1 EXCEPT !.ExposureAuto = "Off", !.ExposureTime = "cfg"]
        o3 == IF oc.gain_db = "None" \/ gf = 1 THEN o2
              ELSE IF gf = 2 THEN [o2 EXCEPT !.GainAuto = "Off"]
              ELSE [o2 EXCEPT !.GainAuto = "Off", !.Gain = "cfg"]
    IN  o3

\* the optional features whose try block raised
Skipped(oc, pf, ef, gf) ==
    (IF pf # 0 THEN {"PixelFormat"} ELSE {})
    \cup (IF oc.exposure_us # "None" /\ ef # 0 THEN {"ExposureTime"} ELSE {})
    \cup (IF oc.gain_db # "None" /\ gf # 0 THEN {"Gain"} ELSE {})

NoConf == [fn |-> "none", completed |-> FALSE, fatal |-> FALSE,
           stop_failed |-> FALSE, skipped |-> {}]

ConfIdle ==
    /\ optional = OptionalDefault
    /\ optcfg = [exposure_us |-> "None", gain_db |-> "None"]
    /\ conf = NoConf

----------------------------------------------------------------------------
(* closed_loop_dots_2.py : DAQEdgeMonitor._poll_loop,                        *)
(* closed_loop_dots_synced_stop.py : NIRiseOnlyTrigger,                      *)
(* closed_loop_dots_synced.py : NIRiseFallTrigger.                           *)
(* A sample is "low", "high", or "err" for a read that raises.              *)

Levels == {"low", "high"}
Reads == Levels \cup {"err"}

\* poll_edge with a missing previous sample read as low
poll_edge_FirstCounts(prev, state) ==
    IF state = "high" /\ prev \in {"None", "low"} THEN "rising"
    ELSE IF state = "low" /\ prev = "high" THEN "falling"
    ELSE "none"

\* the edge detection of _poll_loop: prev is _prev_state ("None" at first),
\* state the sample just read
poll_edge(prev, state) ==
    IF prev = "None" THEN "none"
    ELSE IF state = "high" /\ prev = "low" THEN "rising"
    ELSE IF state = "low" /\ prev = "high" THEN "falling"
    ELSE "none"

\* NIRiseOnlyTrigger.check_trigger: the read stands outside any try
rise_only_check(t, s) ==
    IF s = "err" THEN [t |-> t, ret |-> FALSE, report |-> "raise"]
    ELSE IF t.prev_above = "None"
         THEN [t |-> [t EXCEPT !.prev_above = s], ret |-> FALSE,
               report |-> "none"]
    ELSE LET fired == s = "high" /\ t.prev_above = "low"
         IN  [t |-> [t EXCEPT !.prev_above = s], ret |-> fired,
              report |-> IF fired THEN "rising" ELSE "none"]

\* NIRiseFallTrigger.check_trigger
rise_fall_check(t, s) ==
    IF s = "err" THEN [t |-> t, ret |-> FALSE, report |-> "none"]
    ELSE IF t.prev_above # "None" /\ s # t.prev_above
         THEN IF s = "high"
              THEN [t |-> [t EXCEPT !.armed = TRUE, !.prev_above = s],
                    ret |-> TRUE, report |-> "rising"]
              ELSE [t |-> [t EXCEPT !.prev_above = s], ret |-> FALSE,
                    report |-> "falling"]
    ELSE [t |-> [t EXCEPT !.prev_above = s], ret |-> FALSE,
          report |-> "none"]

\* NIRiseFallTrigger.on_start: the stopper is created and the experiment
\* attached to it; when the creation fails the field keeps its value
on_start(t, ok) == IF ok THEN [t EXCEPT !.stopper = TRUE] ELSE t

\* the stop requests one update() issues below the threshold: stop_req is
\* emitted when there is a stopper (_do_stop calls stop_recording() and
\* stop()), and the QTimer call of stop_recording() and stop() is scheduled
\* as well (the experiment is set on the trigger by Stytra)
StopRequests(t) == (IF t.stopper THEN 1 ELSE 0) + 1

\* NIRiseFallTrigger.update: stop is "a stop request was issued", requests
\* the number of times stop_recording() and stop() were requested
rise_fall_update(t, s) ==
    IF ~t.armed \/ t.stopped THEN [t |-> t, stop |-> FALSE, requests |-> 0]
    ELSE IF s = "err" THEN [t |-> t, stop |-> FALSE, requests |-> 0]
    ELSE IF s = "low" THEN [t |-> [t EXCEPT !.stopped = TRUE], stop |-> TRUE,
                            requests |-> StopRequests(t)]
    ELSE [t |-> t, stop |-> FALSE, requests |-> 0]

NewTrigger == [prev_above |-> "None", armed |-> FALSE, stopped |-> FALSE,
               stopper |-> FALSE]
NoUpdate == [line |-> "none", stop |-> FALSE, requests |-> 0]

EdgeIdle ==
    /\ det = "none"
    /\ trig = NewTrigger
    /\ phase = "polling"
    /\ samples = <<>>
    /\ reports = <<>>
    /\ trial = 0
    /\ upd = NoUpdate

\* __init__ of the detector
InitEdgeVars ==
    /\ det \in {"monitor", "rise_only", "rise_fall"}
    /\ trig = NewTrigger
    /\ phase = "polling"
    /\ samples = <<>>
    /\ reports = <<>>
    /\ trial = 0
    /\ upd = NoUpdate

edgeRest == <<prog, heart2Vars, ctlVars, namerVars, confVars, daqVars,
              vigorVars>>

\* one iteration of _poll_loop with the sample s
MonitorSample(s) ==
    /\ prog = "edges" /\ det = "monitor"
    /\ Len(samples) < MaxSamples
    /\ samples' = Append(samples, s)
    /\ IF s = "err"
       THEN /\ reports' = Append(reports, "none")
            /\ trig' = trig
       ELSE /\ reports' = Append(reports, poll_edge(trig.prev_above, s))
            /\ trig' = [trig EXCEPT !.prev_above = s]
    /\ UNCHANGED <<edgeRest, det, phase, trial, upd>>

\* one call of NIRiseOnlyTrigger.check_trigger; the experiment it starts
\* is not followed
RiseOnlyCheck(s) ==
    /\ prog = "edges" /\ det = "rise_only"
    /\ Len(samples) < MaxSamples
    /\ LET r == rise_only_check(trig, s)
       IN  /\ samples' = Append(samples, s)
           /\ reports' = Append(reports, r.report)
           /\ trig' = r.t
           /\ trial' = IF r.ret /\ trial < MaxTrials THEN trial + 1 ELSE trial
    /\ UNCHANGED <<edgeRest, det, phase, upd>>

\* one call of NIRiseFallTrigger.check_trigger; True starts the experiment,
\* which calls on_start (ok: the stopper could be created)
RiseFallCheck(s, ok) ==
    /\ prog = "edges" /\ det = "rise_fall" /\ phase = "polling"
    /\ Len(samples) < MaxSamples
    /\ trial < MaxTrials
    /\ LET r == rise_fall_check(trig, s)
       IN  /\ samples' = Append(samples, s)
           /\ reports' = Append(reports, r.report)
           /\ trig' = IF r.ret THEN on_start(r.t, ok) ELSE r.t
           /\ trial' = IF r.ret THEN trial + 1 ELSE trial
           /\ phase' = IF r.ret THEN "running" ELSE "polling"
           /\ upd' = IF r.ret THEN NoUpdate ELSE upd
    /\ UNCHANGED <<edgeRest, det>>

\* one call of NIRiseFallTrigger.update while the experiment runs and the
\* line reads s; a stop request ends the experiment
RiseFallUpdate(s) ==
    /\ prog = "edges" /\ det = "rise_fall" /\ phase = "running"
    /\ LET r == rise_fall_update(trig, s)
       IN  /\ trig' = r.t
           /\ upd' = [line |-> s, stop |-> r.stop,
                       requests |-> upd.requests + r.requests]
           /\ phase' = IF r.stop THEN "polling" ELSE "running"
    /\ UNCHANGED <<edgeRest, det, samples, reports, trial>>

\* the experiment ends without a stop request (the protocol ran out)
ExperimentEnds ==
    /\ prog = "edges" /\ det = "rise_fall" /\ phase = "running"
    /\ phase' = "polling"
    /\ upd' = NoUpdate
    /\ UNCHANGED <<edgeRest, det, trig, samples, reports, trial>>

NextEdges ==
    \/ \E s \in Reads : MonitorSample(s)
    \/ \E s \in Reads : RiseOnlyCheck(s)
    \/ \E s \in Reads, ok \in BOOLEAN : RiseFallCheck(s, ok)
    \/ \E s \in Reads : RiseFallUpdate(s)
    \/ ExperimentEnds

----------------------------------------------------------------------------
(* closed_loop_dots_2.py : DAQEdgeMonitor with its polling threads, and the *)
(* lifecycle of VisualStim_dots: start() (Play), the stimulus sequence with *)
(* the wrapped updates, the flush of the logs, end().                       *)
(* An iteration of _poll_loop is up to three steps: the read of the sample, *)
(* the edge detection with the clear of the opposite event, and the set of  *)
(* the event with the store of _prev_state.  start() and the other          *)
(* methods of the monitor are one step each.  The join of stop() waits for  *)
(* the thread: an iteration lasts milliseconds, the join timeout is 2 s.    *)

Pollers == 1..MaxPollers

NewMonitor == [stop_flag |-> FALSE, rising_edge_event |-> FALSE,
               falling_edge_event |-> FALSE, prev_state |-> "None",
               thread |-> 0]
Unborn == [pc |-> "unborn", state |-> "none", first |-> FALSE]
NewProtocol == [pc |-> "idle", rising_edge_time |-> FALSE,
                falling_edge_time |-> FALSE, sequence_aborted |-> FALSE]
NewTrial == [rose |-> FALSE, flushes |-> 0, saved |-> "none",
             saw_falling |-> FALSE, last_update |-> "none", stamps |-> 0,
             how |-> "none"]
NewMonObs == [taken |-> FALSE, first_edge |-> "pending", stops |-> 0,
              orphans |-> FALSE]

\* DAQEdgeMonitor.__init__ and VisualStim_dots.__init__
DaqIdle ==
    /\ mon = NewMonitor
    /\ pollers = [t \in Pollers |-> Unborn]
    /\ proto = NewProtocol
    /\ trialobs = NewTrial
    /\ monobs = NewMonObs

daqRest == <<prog, heart2Vars, ctlVars, namerVars, confVars, edgeVars,
             vigorVars>>

Alive(t) == pollers[t].pc \in {"loop", "read", "set_rising", "set_falling"}

\* DAQEdgeMonitor.start(): the thread made is the next one never made
monitor_start(m, ps) ==
    LET t == CHOOSE u \in Pollers :
                /\ ps[u].pc = "unborn"
                /\ \A v \in Pollers : v < u => ps[v].pc # "unborn"
    IN  [mon |-> [stop_flag |-> FALSE, rising_edge_event |-> FALSE,
                  falling_edge_event |-> FALSE, prev_state |-> "None",
                  thread |-> t],
         pollers |-> [u \in Pollers |->
                        IF u = t THEN [pc |-> "loop", state |-> "none",
                                       first |-> FALSE]
                        ELSE [ps[u] EXCEPT !.first = FALSE]]]

\* VisualStim_dots.start() that keeps _sequence_aborted of the last trial
ProtoStart_KeepsAbort ==
    /\ prog = "daq"
    /\ proto.pc = "idle"
    /\ \E u \in Pollers : pollers[u].pc = "unborn"
    /\ LET r == monitor_start(mon, pollers)
       IN  /\ mon' = r.mon
           /\ pollers' = r.pollers
    /\ proto' = [pc |-> "waiting", rising_edge_time |-> FALSE,
                 falling_edge_time |-> FALSE,
                 sequence_aborted |-> proto.sequence_aborted]
    /\ trialobs' = NewTrial
    /\ monobs' = [taken |-> FALSE, first_edge |-> "pending", stops |-> 0,
                  orphans |-> monobs.orphans \/ \E u \in Pollers : Alive(u)]
    /\ UNCHANGED daqRest

\* VisualStim_dots.start() up to the wait for the rising edge: Play
ProtoStart ==
    /\ prog = "daq"
    /\ proto.pc = "idle"
    /\ \E u \in Pollers : pollers[u].pc = "unborn"
    /\ LET r == monitor_start(mon, pollers)
       IN  /\ mon' = r.mon
           /\ pollers' = r.pollers
    /\ proto' = [pc |-> "waiting", rising_edge_time |-> FALSE,
                 falling_edge_time |-> FALSE, sequence_aborted |-> FALSE]
    /\ trialobs' = NewTrial
    /\ monobs' = [taken |-> FALSE, first_edge |-> "pending", stops |-> 0,
                  orphans |-> monobs.orphans \/ \E u \in Pollers : Alive(u)]
    /\ UNCHANGED daqRest

\* _poll_loop: the loop test finds _stop_flag set, the thread ends
PollExit(t) ==
    /\ prog = "daq"
    /\ pollers[t].pc = "loop"
    /\ mon.stop_flag
    /\ pollers' = [pollers EXCEPT ![t].pc = "done"]
    /\ UNCHANGED <<daqRest, mon, proto, trialobs, monobs>>

\* _poll_loop: an exception outside the read (the DAQmx task cannot be
\* made): "Fatal error in poll loop", the thread ends
PollFatal(t) ==
    /\ prog = "daq"
    /\ pollers[t].pc = "loop"
    /\ pollers' = [pollers EXCEPT ![t].pc = "done"]
    /\ UNCHANGED <<daqRest, mon, proto, trialobs, monobs>>

\* _poll_loop: the loop test passes and task.read delivers the sample s (a
\* read that raises leads back to the loop test and changes nothing)
PollRead(t, s) ==
    /\ prog = "daq"
    /\ pollers[t].pc = "loop"
    /\ ~mon.stop_flag
    /\ pollers' = [pollers EXCEPT ![t] = [pc |-> "read", state |-> s,
                                          first |-> ~monobs.taken]]
    /\ monobs' = [monobs EXCEPT !.taken = TRUE]
    /\ UNCHANGED <<daqRest, mon, proto, trialobs>>

\* _poll_loop: the edge detection on the sample read decides the branch and
\* clears the event of the other edge; without an edge _prev_state = state
\* follows at once
PollDetect(t) ==
    /\ prog = "daq"
    /\ pollers[t].pc = "read"
    /\ LET e == poll_edge(mon.prev_state, pollers[t].state)
       IN  /\ mon' = IF e = "rising"
                     THEN [mon EXCEPT !.falling_edge_event = FALSE]
                     ELSE IF e = "falling"
                     THEN [mon EXCEPT !.rising_edge_event = FALSE]
                     ELSE [mon EXCEPT !.prev_state = pollers[t].state]
           /\ monobs' = [monobs EXCEPT
                            !.first_edge = IF pollers[t].first THEN e ELSE @]
           /\ pollers' = [pollers EXCEPT
                            ![t] = IF e = "none"
                                   THEN [pc |-> "loop", state |-> "none",
                                         first |-> FALSE]
                                   ELSE [pc |-> "set_" \o e,
                                         state |-> pollers[t].state,
                                         first |-> FALSE]]
    /\ UNCHANGED <<daqRest, proto, trialobs>>

\* _poll_loop: the event of the edge found is set, then _prev_state = state
PollSet(t) ==
    /\ prog = "daq"
    /\ pollers[t].pc \in {"set_rising", "set_falling"}
    /\ mon' = IF pollers[t].pc = "set_rising"
              THEN [mon EXCEPT !.rising_edge_event = TRUE,
                               !.prev_state = pollers[t].state]
              ELSE [mon EXCEPT !.falling_edge_event = TRUE,
                               !.prev_state = pollers[t].state]
    /\ pollers' = [pollers EXCEPT ![t] = [pc |-> "loop", state |-> "none",
                                          first |-> FALSE]]
    /\ UNCHANGED <<daqRest, proto, trialobs, monobs>>

\* _wait_for_rising_edge returns: the event is consumed, the time stamped,
\* super().start() begins the stimulus sequence
ProtoRising ==
    /\ prog = "daq"
    /\ proto.pc = "waiting"
    /\ mon.rising_edge_event
    /\ mon' = [mon EXCEPT !.rising_edge_event = FALSE]
    /\ proto' = [proto EXCEPT !.pc = "sequence", !.rising_edge_time = TRUE]
    /\ trialobs' = [trialobs EXCEPT !.rose = TRUE]
    /\ UNCHANGED <<daqRest, pollers, monobs>>

\* guarded_update of a wrapped stimulus, one frame
GuardedUpdate ==
    /\ prog = "daq"
    /\ proto.pc = "sequence"
    /\ IF mon.falling_edge_event
       THEN /\ proto' = [proto EXCEPT !.sequence_aborted = TRUE,
                                      !.falling_edge_time = TRUE]
            /\ trialobs' = [trialobs EXCEPT
                              !.saw_falling = TRUE,
                              !.last_update = "skipped",
                              !.stamps = IF proto.sequence_aborted THEN @
                                         ELSE @ + 1]
       ELSE /\ proto' = proto
            /\ trialobs' = [trialobs EXCEPT !.last_update = "original"]
    /\ UNCHANGED <<daqRest, mon, pollers, monobs>>

\* super().start() returns or raises; the finally clause stamps the falling
\* time if it is missing, flushes the logs, and start() returns
SequenceEnds(exc) ==
    /\ prog = "daq"
    /\ proto.pc = "sequence"
    /\ proto' = [proto EXCEPT
                    !.pc = "idle",
                    !.falling_edge_time = @ \/ proto.sequence_aborted]
    /\ trialobs' = [trialobs EXCEPT
                      !.flushes = @ + 1,
                      !.saved = proto.sequence_aborted,
                      !.stamps = IF proto.sequence_aborted
                                    /\ ~proto.falling_edge_time
                                 THEN @ + 1 ELSE @,
                      !.how = IF exc THEN "exception"
                              ELSE IF proto.sequence_aborted THEN "aborted"
                              ELSE "normal"]
    /\ UNCHANGED <<daqRest, mon, pollers, monobs>>

\* end() whose stop() returns without waiting for the thread
ProtoEnd_NoJoin ==
    /\ prog = "daq"
    /\ proto.pc = "idle"
    /\ monobs.stops < MaxStops
    /\ mon' = [mon EXCEPT !.stop_flag = TRUE]
    /\ monobs' = [monobs EXCEPT !.stops = @ + 1]
    /\ UNCHANGED <<daqRest, pollers, proto, trialobs>>

\* end(): DAQEdgeMonitor.stop() sets _stop_flag and, when a thread was ever
\* started, joins it; with no thread or a finished one it returns at once
ProtoEnd ==
    /\ prog = "daq"
    /\ proto.pc = "idle"
    /\ monobs.stops < MaxStops
    /\ mon' = [mon EXCEPT !.stop_flag = TRUE]
    /\ IF mon.thread = 0 \/ ~Alive(mon.thread)
       THEN /\ monobs' = [monobs EXCEPT !.stops = @ + 1]
            /\ proto' = proto
       ELSE /\ monobs' = monobs
            /\ proto' = [proto EXCEPT !.pc = "joining"]
    /\ UNCHANGED <<daqRest, pollers, trialobs>>

\* the join of stop() returns: the thread has ended
ProtoEndJoined ==
    /\ prog = "daq"
    /\ proto.pc = "joining"
    /\ ~Alive(mon.thread)
    /\ proto' = [proto EXCEPT !.pc = "idle"]
    /\ monobs' = [monobs EXCEPT !.stops = @ + 1]
    /\ UNCHANGED <<daqRest, mon, pollers, trialobs>>

NextDaq ==
    \/ ProtoStart
    \/ \E t \in Pollers : PollExit(t)
    \/ \E t \in Pollers : PollFatal(t)
    \/ \E t \in Pollers, s \in Levels : PollRead(t, s)
    \/ \E t \in Pollers : PollDetect(t)
    \/ \E t \in Pollers : PollSet(t)
    \/ ProtoRising
    \/ GuardedUpdate
    \/ \E exc \in BOOLEAN : SequenceEnds(exc)
    \/ ProtoEnd
    \/ ProtoEndJoined

----------------------------------------------------------------------------
(* VigorResponsiveDotStim.py : the blackout of the closed-loop dot stimulus. *)
(* Vigor and times are whole numbers; the clock does not run backwards.      *)

VigorThreshold == 2
Hysteresises == {0, 1}
DwellTimes == {2, 3}
\* the clock reading when the stimulus is made: far above any dwell time
EpochMs == 3

\* what the experiment offers to _get_vigor: no experiment or no estimator,
\* estimator.vigor (a number or not), else get_velocity() (a number or not),
\* else neither
Unavailable == {"no_experiment", "no_estimator", "vigor_bad", "velocity_bad",
                "neither"}
Estimates ==
    {[kind |-> k, x |-> 0] : k \in Unavailable} \cup
    {[kind |-> k, x |-> x] : k \in {"vigor", "velocity"},
                             x \in (0 - MaxVigor)..MaxVigor}

NoVigor == [ok |-> FALSE, v |-> 0]

\* _get_vigor: float(estimator.vigor), else abs(float(get_velocity())),
\* else None
get_vigor(e) ==
    IF e.kind = "vigor" THEN [ok |-> TRUE, v |-> e.x]
    ELSE IF e.kind = "velocity"
         THEN [ok |-> TRUE, v |-> IF e.x < 0 THEN 0 - e.x ELSE e.x]
    ELSE NoVigor

\* __init__
NewStim(h, m) ==
    [vigor_threshold |-> VigorThreshold, hysteresis |-> h,
     blackout_min_ms |-> m, blackout |-> FALSE, last_switch_ms |-> 0]

\* _switch_blackout(new_state), the clock reading t_sw
switch_blackout(st, new_state, t_sw) ==
    [st EXCEPT !.blackout = new_state, !.last_switch_ms = t_sw]

maybe_toggle_blackout_NoDwell(st, t_now, e, t_sw) ==
    LET vig == get_vigor(e)
    IN  IF ~vig.ok THEN st
        ELSE IF ~st.blackout /\ vig.v >= st.vigor_threshold
             THEN switch_blackout(st, TRUE, t_sw)
        ELSE IF st.blackout /\ vig.v <= st.vigor_threshold - st.hysteresis
             THEN switch_blackout(st, FALSE, t_sw)
        ELSE st

\* _maybe_toggle_blackout: now is read as t_now, and the time of the switch
\* is read again as t_sw
maybe_toggle_blackout(st, t_now, e, t_sw) ==
    IF (t_now - st.last_switch_ms) < st.blackout_min_ms THEN st
    ELSE LET vig == get_vigor(e)
         IN  IF ~vig.ok THEN st
             ELSE IF ~st.blackout /\ vig.v >= st.vigor_threshold
                  THEN switch_blackout(st, TRUE, t_sw)
             ELSE IF st.blackout
                        /\ vig.v <= st.vigor_threshold - st.hysteresis
                  THEN switch_blackout(st, FALSE, t_sw)
             ELSE st

NoCall == [called |-> FALSE, vig |-> NoVigor, switched |-> FALSE,
           prev_switch |-> 0]

VigorIdle ==
    /\ stim = NewStim(0, 0)
    /\ clock = 0
    /\ vobs = NoCall

vigorRest == <<prog, heart2Vars, ctlVars, namerVars, confVars, edgeVars,
               daqVars>>

\* one call update() while the experiment offers e; d is the time that
\* passes between the two readings of the clock
VigorUpdate(e, d) ==
    /\ prog = "vigor"
    /\ clock + d <= MaxClock
    /\ stim' = maybe_toggle_blackout(stim, clock, e, clock + d)
    /\ clock' = clock + d
    /\ vobs' = [called |-> TRUE, vig |-> get_vigor(e),
                switched |-> stim'.blackout # stim.blackout,
                prev_switch |-> stim.last_switch_ms]
    /\ UNCHANGED vigorRest

\* time passes between two calls of update()
VigorTick ==
    /\ prog = "vigor"
    /\ clock < MaxClock
    /\ clock' = clock + 1
    /\ UNCHANGED <<vigorRest, stim, vobs>>

NextVigor ==
    \/ \E e \in Estimates, d \in {0, 1} : VigorUpdate(e, d)
    \/ VigorTick

AuxIdle == ConfIdle /\ EdgeIdle /\ DaqIdle /\ VigorIdle

\* one call configure_camera_for_freerun(cam, cfg)
ConfigFreerun(fp, pf, ef, gf) ==
    /\ prog = "config"
    /\ LET r == configure_camera_for_freerun(nodemap, fp)
       IN  /\ nodemap' = r.nm
           /\ optional' = IF r.ok
                          THEN optional_settings(optional, optcfg, pf, ef, gf)
                          ELSE optional
           /\ conf' = [fn |-> "freerun", completed |-> r.ok,
                       fatal |-> fp # 0, stop_failed |-> FALSE,
                       skipped |-> IF r.ok THEN Skipped(optcfg, pf, ef, gf)
                                   ELSE {}]
    /\ UNCHANGED <<prog, cfg, acq_stop_entry, acq_stop_configured, cam,
                   acq, pc, exit_code, last_cmd, listener, cmd, recLocals,
                   recObservers, last_msg, failure, ctlVars, namerVars,
                   optcfg, edgeVars, daqVars, vigorVars>>

\* one call configure_camera_for_triggered(cam, cfg)
ConfigTriggered(offok, fp, sp, pf, ef, gf) ==
    /\ prog = "config"
    /\ LET r == configure_camera_for_triggered(nodemap, cfg, acq_stop_entry,
                                               offok, fp, sp)
           tried == cfg.use_acquisition_stop /\ acq_stop_entry
       IN  /\ nodemap' = r.nm
           /\ acq_stop_configured' = IF r.ok THEN r.acq
                                     ELSE acq_stop_configured
           /\ optional' = IF r.ok
                          THEN optional_settings(optional, optcfg, pf, ef, gf)
                          ELSE optional
           /\ conf' = [fn |-> "triggered", completed |-> r.ok,
                       fatal |-> fp # 0,
                       stop_failed |-> fp = 0 /\ tried /\ sp # 0,
                       skipped |-> IF r.ok THEN Skipped(optcfg, pf, ef, gf)
                                   ELSE {}]
    /\ UNCHANGED <<prog, cfg, acq_stop_entry, cam,
                   acq, pc, exit_code, last_cmd, listener, cmd, recLocals,
                   recObservers, last_msg, failure, ctlVars, namerVars,
                   optcfg, edgeVars, daqVars, vigorVars>>

NextConfig ==
    \/ \E fp \in FreerunFail, pf \in 0..1, ef \in TryFail, gf \in TryFail :
            ConfigFreerun(fp, pf, ef, gf)
    \/ \E offok \in BOOLEAN, fp \in TriggeredFail, sp \in AcqStopFail,
          pf \in 0..1, ef \in TryFail, gf \in TryFail :
            ConfigTriggered(offok, fp, sp, pf, ef, gf)

----------------------------------------------------------------------------
(* Heart_tracking_2.py : next_2p_name.                                     *)
(* A name is the sequence of its characters; dest_dir is the set of the    *)
(* names of its files.                                                     *)

DigitChars == <<"0", "1", "2", "3", "4", "5", "6", "7", "8", "9">>

\* \d
IsDigit(ch) == \E i \in 1..10 : DigitChars[i] = ch

\* int() of one digit, of the two digits of group "num"
DigitVal(ch) == (CHOOSE i \in 1..10 : DigitChars[i] = ch) - 1
IntOf2(d1, d2) == 10 * DigitVal(d1) + DigitVal(d2)

\* str(n), n >= 0
RECURSIVE Decimal(_)
Decimal(n) ==
    IF n < 10 THEN <<DigitChars[n + 1]>>
    ELSE Decimal(n \div 10) \o <<DigitChars[(n % 10) + 1]>>

\* f"{n:02d}": zero-padded to at least two characters, never truncated
Format02d(n) ==
    LET d == Decimal(n)
    IN  IF Len(d) < 2 THEN <<"0">> \o d ELSE d

\* _SUFFIX_RE.match(bp): ^(?P<base>.*)A(?P<num>\d{2})$
SuffixMatch(bp) ==
    /\ Len(bp) >= 3
    /\ bp[Len(bp) - 2] = "A"
    /\ IsDigit(bp[Len(bp) - 1])
    /\ IsDigit(bp[Len(bp)])
SuffixBase(bp) == SubSeq(bp, 1, Len(bp) - 3)
SuffixNum(bp) == IntOf2(bp[Len(bp) - 1], bp[Len(bp)])

\* PatternMatch accepting any extension
PatternMatch_AnyExt(fn, base, e) ==
    /\ Len(fn) >= Len(base) + 3
    /\ SubSeq(fn, 1, Len(base)) = base
    /\ fn[Len(base) + 1] = "A"
    /\ IsDigit(fn[Len(base) + 2])
    /\ IsDigit(fn[Len(base) + 3])

\* pattern.match(fn): re.escape(base) + A(?P<num>\d{2}) + re.escape(ext) + $
PatternMatch(fn, base, e) ==
    /\ Len(fn) = Len(base) + 3 + Len(e)
    /\ SubSeq(fn, 1, Len(base)) = base
    /\ fn[Len(base) + 1] = "A"
    /\ IsDigit(fn[Len(base) + 2])
    /\ IsDigit(fn[Len(base) + 3])
    /\ SubSeq(fn, Len(base) + 4, Len(fn)) = e
PatternNum(fn, base) == IntOf2(fn[Len(base) + 2], fn[Len(base) + 3])

\* max(a, b), and max of a finite set of numbers
Max2(a, b) == IF a >= b THEN a ELSE b
MaxOf(S) == CHOOSE m \in S : \A n \in S : n <= m

\* next_2p_name taking the embedded counter as already used
next_2p_name_SkipEmbedded(listing, bp, e) ==
    LET m == SuffixMatch(bp)
        base == IF m THEN SuffixBase(bp) ELSE bp
        start_num == IF m THEN SuffixNum(bp) ELSE 1
        scanned == {PatternNum(fn, base) :
                        fn \in {g \in listing : PatternMatch(g, base, e)}}
        max_num == Max2(MaxOf(scanned \cup {0}),
                        IF m THEN start_num ELSE start_num - 1)
        new_num == max_num + 1
        stem == base \o <<"A">> \o Format02d(new_num)
    IN  [stem |-> stem, full_path |-> stem \o e, new_num |-> new_num]

\* next_2p_name(dest_dir, base_prefix, ext) on the listing of dest_dir;
\* full_path is given as the file name inside dest_dir
next_2p_name(listing, bp, e) ==
    LET m == SuffixMatch(bp)
        base == IF m THEN SuffixBase(bp) ELSE bp
        start_num == IF m THEN SuffixNum(bp) ELSE 1
        scanned == {PatternNum(fn, base) :
                        fn \in {g \in listing : PatternMatch(g, base, e)}}
        max_num == Max2(MaxOf(scanned \cup {0}), start_num - 1)
        new_num == max_num + 1
        stem == base \o <<"A">> \o Format02d(new_num)
    IN  [stem |-> stem, full_path |-> stem \o e, new_num |-> new_num]

NoName == [stem |-> <<>>, full_path |-> <<>>, new_num |-> 0]

\* the inputs explored
Avi == <<".", "a", "v", "i">>
Txt == <<".", "t">>
Exts == {Avi, Txt}
BasePrefixes == {<<"x">>,                      \* no counter
                 <<"x", "A", "5">>,            \* one digit: no counter
                 <<"x", "A", "0", "0">>,       \* counter 00
                 <<"x", "A", "0", "5">>,       \* counter 05
                 <<"x", "A", "9", "9">>}       \* counter 99
DirFiles == {<<"x", "A", "0", "1">> \o Avi,
             <<"x", "A", "0", "2">> \o Avi,
             <<"x", "A", "0", "7">> \o Txt,
             <<"x", "A", "9", "8">> \o Avi,
             <<"x", "A", "9", "9">> \o Avi,
             <<"x", "A", "3">> \o Avi,
             <<"y", "A", "0", "9">> \o Avi,
             <<"x", "A", "0", "4", "-">> \o Avi}

\* no call of next_2p_name is exercised
NamerIdle ==
    /\ dir_present = TRUE
    /\ files = {}
    /\ base_prefix = <<"x">>
    /\ ext = Avi
    /\ out = NoName
    /\ seen = {}
    /\ rec_nums = <<>>
    /\ calls = 0

InitNamerVars ==
    /\ dir_present \in BOOLEAN
    /\ files \in IF dir_present THEN SUBSET DirFiles ELSE {{}}
    /\ base_prefix \in BasePrefixes
    /\ ext \in Exts
    /\ out = NoName
    /\ seen = {}
    /\ rec_nums = <<>>
    /\ calls = 0

\* NamerCall leaving an empty file of the returned name behind
NamerCall_Touches ==
    /\ prog = "namer"
    /\ calls < MaxNamed
    /\ calls' = calls + 1
    /\ dir_present' = TRUE
    /\ seen' = files
    /\ out' = next_2p_name(files, base_prefix, ext)
    /\ files' = files \cup {next_2p_name(files, base_prefix, ext).full_path}
    /\ UNCHANGED <<prog, heart2Vars, ctlVars, auxVars, base_prefix, ext, rec_nums>>

\* a call of next_2p_name alone: _ensure_dir, then the scan; no file is made
NamerCall ==
    /\ prog = "namer"
    /\ calls < MaxNamed
    /\ calls' = calls + 1
    /\ dir_present' = TRUE
    /\ seen' = files
    /\ out' = next_2p_name(files, base_prefix, ext)
    /\ UNCHANGED <<prog, heart2Vars, ctlVars, auxVars, files, base_prefix, ext,
                   rec_nums>>

\* record_video, its first statements: next_2p_name, then
\* _create_avi_recorder opens (creates or overwrites) the file of that name
NamerRecord ==
    /\ prog = "namer"
    /\ Len(rec_nums) < MaxNamed
    /\ LET r == next_2p_name(files, base_prefix, ext)
       IN  /\ dir_present' = TRUE
           /\ seen' = files
           /\ out' = r
           /\ files' = files \cup {r.full_path}
           /\ rec_nums' = Append(rec_nums, r.new_num)
           /\ calls' = 0
    /\ UNCHANGED <<prog, heart2Vars, ctlVars, auxVars, base_prefix, ext>>

NextNamer == NamerCall \/ NamerRecord

InitNamer ==
    /\ prog = "namer"
    /\ InitHeart2
    /\ cfg = [triggered |-> FALSE, stop_on_falling |-> FALSE,
              max_triggered_s |-> NoCap, use_acquisition_stop |-> FALSE,
              target_frames |-> 1]
    /\ acq_stop_entry = FALSE
    /\ InitNamerVars
    /\ AuxIdle
SpecNamer == InitNamer /\ [][NextNamer]_vars

----------------------------------------------------------------------------
NextHeart2 ==
    \/ StartNoCamera
    \/ StartInitFails
    \/ \E fp0 \in FreerunFail, offok \in BOOLEAN, fp \in TriggeredFail,
          sp \in AcqStopFail, openok \in BOOLEAN :
            Start(fp0, offok, fp, sp, openok)
    \/ \E c \in Commands : ListenerRun(c)
    \/ ListenerEOF
    \/ PopRead
    \/ CmdIdle
    \/ CmdQuit
    \/ \E fp \in FreerunFail, openok \in BOOLEAN : CmdR(fp, openok)
    \/ \E offok \in BOOLEAN, fp \in TriggeredFail, sp \in AcqStopFail,
          openok \in BOOLEAN : CmdT(offok, fp, sp, openok)
    \/ \E o \in Outcomes, d \in 0..TimeoutS, ls \in LineReads :
            RecWaitIter(o, d, ls)
    \/ RecFreeDone
    \/ \E o \in Outcomes, d \in 0..TimeoutS : RecFreeIter(o, d)
    \/ RecTrigStop
    \/ \E o \in Outcomes, d \in 0..TimeoutS, ls \in LineReads :
            RecTrigIter(o, d, ls)
    \/ RecClose
    \/ \E fp \in FreerunFail : AfterRecord(fp)

\* Heart_tracking_2.py as a whole
Init == prog = "heart2" /\ InitHeart2 /\ NamerIdle /\ AuxIdle
Next == NextHeart2
Spec == Init /\ [][Next]_vars

\* one call of record_video
NextRecord ==
    \/ \E o \in Outcomes, d \in 0..TimeoutS, ls \in LineReads :
            RecWaitIter(o, d, ls)
    \/ RecFreeDone
    \/ \E o \in Outcomes, d \in 0..TimeoutS : RecFreeIter(o, d)
    \/ RecTrigStop
    \/ \E o \in Outcomes, d \in 0..TimeoutS, ls \in LineReads :
            RecTrigIter(o, d, ls)
    \/ RecClose
InitRec == prog = "record_video" /\ InitRecord /\ NamerIdle /\ AuxIdle
SpecRecord == InitRec /\ [][NextRecord]_vars

----------------------------------------------------------------------------
(* Heart_tracking_2p.py : FLIRCameraController.                            *)
(* The two "continue" statements in the except clause of start_recording   *)
(* stand outside any loop; they are read as leaving the method.  The code  *)
(* that would start a recording on the first triggered frame stands in     *)
(* main() and after sys.exit(), so run() starts recordings on 'r' only.    *)

\* the fields stop_recording and start_recording work on
CtlRec == [recording |-> recording, video_writer |-> video_writer,
           number |-> current_recording_number, n_open |-> n_open]

\* stop_recording without video_writer.release()
stop_recording_NoRelease(st) ==
    IF ~st.recording THEN st
    ELSE [recording |-> FALSE, video_writer |-> "None",
          number |-> st.number + 1, n_open |-> st.n_open]

stop_recording(st) ==
    IF ~st.recording THEN st
    ELSE [recording |-> FALSE,
          video_writer |-> "None",
          number |-> st.number + 1,
          n_open |-> IF st.video_writer = "open" THEN st.n_open - 1
                     ELSE st.n_open]

\* img: what GetNextImage gives start_recording ("frame", "incomplete",
\* "exception"); opened: video_writer.isOpened()
start_recording(st, img, opened) ==
    IF st.recording THEN st
    ELSE IF img # "frame" THEN st
    ELSE IF opened
         THEN [st EXCEPT !.video_writer = "open", !.recording = TRUE,
                         !.n_open = @ + 1]
         ELSE [st EXCEPT !.video_writer = "unopened"]

CtlImages == {"frame", "incomplete", "exception"}
Keys == {"none", "q", "r", "t", "f"}

heart2Rest == <<acq, exit_code, cfg, acq_stop_entry, acq_stop_configured, nodemap,
                last_cmd, listener, cmd, caller, wait_first, frames_written,
                started, consecutive_timeouts, line_status, t0, recorder, now,
                opens, closes, appended, pulls, delivered, hist,
                timeouts_in_row, saw_high, t_first, stop_reason, last_msg,
                failure>>

SetCtlRec(st) ==
    /\ recording' = st.recording
    /\ video_writer' = st.video_writer
    /\ current_recording_number' = st.number
    /\ n_open' = st.n_open

\* run(): BeginAcquisition before the loop
CtlRunBegin ==
    /\ pc = "ctl_start"
    /\ cam' = Streaming(cam, TRUE)
    /\ pc' = "ctl_loop"
    /\ UNCHANGED <<prog, namerVars, auxVars, acq, heart2Rest, n_open, ctlVars>>

\* run(): an iteration in which GetNextImage raises: "Error", continue
CtlIterError ==
    /\ pc = "ctl_loop" /\ running
    /\ UNCHANGED vars

\* run(): an iteration that gets an image and handles key 'q' or no key
CtlKeyQuit(key) ==
    /\ pc = "ctl_loop" /\ running /\ cam.streaming
    /\ key \in {"none", "q"}
    /\ running' = (key # "q")
    /\ UNCHANGED <<prog, namerVars, auxVars, acq, pc, cam, heart2Rest, n_open, mode, recording,
                   video_writer, waiting_for_trigger,
                   current_recording_number>>

\* run(): key 'r' in free-run mode toggles the recording
CtlKeyR(img, opened) ==
    /\ pc = "ctl_loop" /\ running /\ cam.streaming
    /\ mode = "free-run"
    /\ recording \/ current_recording_number <= MaxRecordings
    /\ IF recording
       THEN img = "frame" /\ opened /\ SetCtlRec(stop_recording(CtlRec))
       ELSE SetCtlRec(start_recording(CtlRec, img, opened))
    /\ UNCHANGED <<prog, namerVars, auxVars, acq, pc, cam, heart2Rest, mode, waiting_for_trigger,
                   running>>

\* switch_mode(new_mode) followed by the assignment of waiting_for_trigger;
\* cfgok: _configure_trigger_mode returned True
CtlKeyMode(new_mode, cfgok) ==
    /\ pc = "ctl_loop" /\ running /\ cam.streaming
    /\ waiting_for_trigger' = (new_mode = "triggered")
    /\ IF new_mode = mode
       THEN /\ cfgok
            /\ UNCHANGED <<cam, mode, recording, video_writer,
                           current_recording_number, n_open>>
       ELSE /\ SetCtlRec(stop_recording(CtlRec))
            /\ mode' = new_mode
            /\ cam' = Streaming(cam, cfgok)
    /\ UNCHANGED <<prog, namerVars, auxVars, acq, pc, heart2Rest, running>>

\* run() after the loop, then cleanup(): stop_recording, EndAcquisition,
\* DeInit, ReleaseInstance
CtlExit ==
    /\ pc = "ctl_loop" /\ ~running
    /\ SetCtlRec(stop_recording(CtlRec))
    /\ cam' = [cam EXCEPT !.streaming = FALSE, !.init = FALSE,
                          !.releases = @ + 1]
    /\ pc' = "exited"
    /\ UNCHANGED <<prog, namerVars, auxVars, acq, heart2Rest, mode, waiting_for_trigger, running>>

NextCtl ==
    \/ CtlRunBegin
    \/ CtlIterError
    \/ \E key \in Keys : CtlKeyQuit(key)
    \/ \E img \in CtlImages, opened \in BOOLEAN : CtlKeyR(img, opened)
    \/ \E m \in {"free-run", "triggered"}, cfgok \in BOOLEAN :
            CtlKeyMode(m, cfgok)
    \/ CtlExit

\* main() after initialize_camera() succeeded; controller.mode = args.mode
InitCtl ==
    /\ pc = "ctl_start"
    /\ cfg = [triggered |-> FALSE, stop_on_falling |-> FALSE,
              max_triggered_s |-> NoCap, use_acquisition_stop |-> FALSE,
              target_frames |-> 1]
    /\ acq_stop_entry = FALSE
    /\ cam = [init |-> TRUE, streaming |-> FALSE, releases |-> 0]
    /\ nodemap = NodemapDefault
    /\ caller = "none"
    /\ wait_first = FALSE
    /\ recorder = "none"
    /\ opens = 0
    /\ n_open = 0
    /\ last_msg = "none"
    /\ InitRest
    /\ mode \in {"free-run", "triggered"}
    /\ recording = FALSE
    /\ video_writer = "None"
    /\ waiting_for_trigger = FALSE
    /\ running = TRUE
    /\ current_recording_number = 1

\* both recorders: Heart_tracking_2.py or Heart_tracking_2p.py
InitRecorders == \/ prog = "heart2" /\ InitHeart2 /\ NamerIdle /\ AuxIdle
                 \/ prog = "heart2p" /\ InitCtl /\ NamerIdle /\ AuxIdle
NextRecorders == NextHeart2 \/ NextCtl
SpecRecorders == InitRecorders /\ [][NextRecorders]_vars

\* one detector of the three, fed any sequence of samples
InitEdges ==
    /\ prog = "edges"
    /\ InitHeart2
    /\ cfg = [triggered |-> FALSE, stop_on_falling |-> FALSE,
              max_triggered_s |-> NoCap, use_acquisition_stop |-> FALSE,
              target_frames |-> 1]
    /\ acq_stop_entry = FALSE
    /\ NamerIdle
    /\ ConfIdle
    /\ InitEdgeVars
    /\ DaqIdle
    /\ VigorIdle
SpecEdges == InitEdges /\ [][NextEdges]_vars

\* the protocol VisualStim_dots with its monitor, just constructed
InitDaq ==
    /\ prog = "daq"
    /\ InitHeart2
    /\ cfg = [triggered |-> FALSE, stop_on_falling |-> FALSE,
              max_triggered_s |-> NoCap, use_acquisition_stop |-> FALSE,
              target_frames |-> 1]
    /\ acq_stop_entry = FALSE
    /\ NamerIdle
    /\ ConfIdle
    /\ EdgeIdle
    /\ DaqIdle
    /\ VigorIdle
SpecDaq == InitDaq /\ [][NextDaq]_vars

\* one call of a configure function on a camera in any node state
InitConfig ==
    /\ prog = "config"
    /\ InitHeart2
    /\ cfg.triggered /\ ~cfg.stop_on_falling /\ cfg.max_triggered_s = NoCap
    /\ NamerIdle
    /\ optional = OptionalDefault
    /\ optcfg \in OptCfgs
    /\ conf = NoConf
    /\ EdgeIdle
    /\ DaqIdle
    /\ VigorIdle
SpecConfig == InitConfig /\ [][NextConfig]_vars

\* a VigorResponsiveDotStim just constructed, with its parameters
InitVigor ==
    /\ prog = "vigor"
    /\ InitHeart2
    /\ cfg = [triggered |-> FALSE, stop_on_falling |-> FALSE,
              max_triggered_s |-> NoCap, use_acquisition_stop |-> FALSE,
              target_frames |-> 1]
    /\ acq_stop_entry = FALSE
    /\ NamerIdle
    /\ ConfIdle
    /\ EdgeIdle
    /\ DaqIdle
    /\ \E h \in Hysteresises, m \in DwellTimes : stim = NewStim(h, m)
    /\ clock = EpochMs
    /\ vobs = NoCall
SpecVigor == InitVigor /\ [][NextVigor]_vars

----------------------------------------------------------------------------
(* Claims *)

InRecording == pc \in {"rv_wait", "rv_free", "rv_trig", "rv_close"}

\* C1: every call of record_video that opened a recorder has closed it
\* exactly once when control returns to the caller, whatever stopped the
\* recording; the recorder is open while the loops run and is never closed
\* twice.
C1_ClosedExactlyOnce ==
    /\ closes <= 1
    /\ InRecording => (recorder = "open" /\ opens = 1 /\ closes = 0)
    /\ pc = "rv_ret" => (recorder = "closed" /\ opens = 1 /\ closes = 1
                         /\ n_open = 0)

\* a recording that absorbed an Append error and was stopped by repeated
\* timeouts has returned
C1_Witness ==
    /\ pc = "rv_ret"
    /\ stop_reason = "timeouts"
    /\ delivered > frames_written

\* the frame source yielded complete frames, then timeouts only, the line
\* never read LOW, no safety cap, triggered-stop mode
C2_Scenario ==
    /\ wait_first /\ cfg.stop_on_falling /\ ~HasCap(cfg)
    /\ line_status # "LOW"
    /\ hist = "timeouts"

\* C2: in a triggered-stop recording without cap whose line never reads
\* LOW and whose source yields N >= 1 complete frames and then timeouts, the
\* loop is left at the third consecutive timeout, the recorder is closed
\* exactly once and frames_written = N.
C2_TimeoutStopKeepsFrames ==
    /\ (C2_Scenario /\ pc = "rv_trig") => timeouts_in_row < TimeoutThreshold
    /\ (C2_Scenario /\ pc \in {"rv_close", "rv_ret"}) =>
            /\ stop_reason = "timeouts"
            /\ timeouts_in_row = TimeoutThreshold
            /\ delivered >= 1
            /\ frames_written = delivered
            /\ appended = delivered
    /\ (C2_Scenario /\ pc = "rv_ret") => (closes = 1 /\ recorder = "closed")

C2_Witness ==
    /\ C2_Scenario
    /\ pc = "rv_ret"
    /\ frames_written = 2
    /\ closes = 1

\* C3: at most one output file is open at any time, in the command loop of
\* Heart_tracking_2.py and in FLIRCameraController; an open recorder or
\* video writer is the only open file.
C3_AtMostOneOpen ==
    /\ n_open \in {0, 1}
    /\ recorder = "open" => n_open = 1
    /\ video_writer = "open" => (n_open = 1 /\ recording)

\* the controller is recording its second file
C3_Witness ==
    /\ prog = "heart2p"
    /\ recording
    /\ video_writer = "open"
    /\ current_recording_number = 2

CapReached == HasCap(cfg) /\ (now - t0) >= CapS(cfg)

\* C5: every iteration of the triggered loop tests line low first, then the
\* safety cap, and pulls a frame only when neither holds; a stop is attributed
\* to the first condition that holds, and repeated timeouts stop the loop only
\* in an iteration that pulled.
C5_StopPriority ==
    [][pc = "rv_trig" =>
         IF line_status = "LOW"
         THEN pc' = "rv_close" /\ stop_reason' = "line_low" /\ pulls' = pulls
         ELSE IF CapReached
         THEN pc' = "rv_close" /\ stop_reason' = "cap" /\ pulls' = pulls
         ELSE /\ pulls' = pulls + 1
              /\ stop_reason' \in {"none", "timeouts"}
              /\ (stop_reason' = "timeouts") =
                   (pc' = "rv_close" /\ consecutive_timeouts' >= TimeoutThreshold)
      ]_vars

\* line low and safety cap held in the same iteration: stopped as line low
C5_Witness ==
    /\ pc = "rv_close"
    /\ stop_reason = "line_low"
    /\ CapReached

\* C6 as claimed: the line condition stops a recording only after a HIGH
\* sample was followed by a LOW sample.
C6_StopOnFallingEdgeOnly == stop_reason = "line_low" => saw_high

\* C6 as amended: the line condition is a level test: the recording is
\* stopped by it exactly when the latest sample of the line read LOW, with or
\* without an earlier HIGH sample.
C6_StopOnLowLevel ==
    pc \in {"rv_close", "rv_ret"} =>
        ((stop_reason = "line_low") = (line_status = "LOW"))

\* the very first sample read LOW and stopped the recording after one frame
C6_Witness ==
    /\ pc = "rv_close"
    /\ stop_reason = "line_low"
    /\ ~saw_high
    /\ pulls = 1
    /\ frames_written = 1

\* C7: a recording stopped by the safety cap T stops at or after T seconds,
\* and before T plus one poll interval, counted from the first frame.
C7_CapCountsFromFirstFrame ==
    stop_reason = "cap" =>
        /\ (now - t_first) >= CapS(cfg)
        /\ (now - t_first) < CapS(cfg) + TimeoutS

\* C8: with max_triggered_s configured, a triggered recording pulls no
\* further frame once the cap has passed since its first frame, whatever
\* stop_on_falling is.
C8_NoPullPastCap ==
    [][(pc \in {"rv_free", "rv_trig"} /\ wait_first /\ started
        /\ HasCap(cfg) /\ (now - t_first) >= CapS(cfg))
       => pulls' = pulls]_vars

\* C9: when run() reports the return to free-run mode, TriggerMode is Off
\* for every trigger selector.
C9_TriggerModesOff ==
    (pc = "cmd_loop" /\ last_msg = "returned_freerun") =>
        \A sel \in Selectors : nodemap.TriggerMode[sel] = "Off"

\* C10: after a failure to open the output file or to configure a trigger
\* node in a recording attempt started by 'r' or 't', the process is still
\* running with the camera initialised.
C10_FailureIsLocal ==
    (cmd \in {"r", "t"} /\ failure \in {"open", "trigger_cfg"}) =>
        (pc # "exited" /\ cam.init)

\* C11: once the operator has entered "q" and it waits in the listener, the
\* next iteration of whatever loop the main thread is in observes it: no loop
\* of record_video pulls another frame while the quit command is pending.
C11_QuitObservedNextIteration ==
    [][(listener = "running" /\ last_cmd = "q"
        /\ pc \in {"rv_wait", "rv_free", "rv_trig"})
       => pulls' = pulls]_vars

\* C12: a command leaves the hand-off slot last_cmd only through the pop()
\* that returns it (or by being overwritten by a later command): whenever
\* last_cmd is cleared, the command cleared is the one pop() returns.
C12_ClearedOnlyWhenReturned ==
    [][(last_cmd # "None" /\ last_cmd' = "None") => cmd' = last_cmd]_vars

C14_WrittenIsAppended == frames_written = appended

\* C15: a recording that is not in triggered-stop mode never writes more
\* than target_frames frames and has written exactly target_frames when it
\* leaves its loop; the first triggered frame counts as one of them.
C15_StopsAtTargetFrames ==
    ~triggered_stop =>
        /\ frames_written <= cfg.target_frames
        /\ pc \in {"rv_close", "rv_ret"} =>
               (frames_written = cfg.target_frames
                /\ stop_reason = "frame_count")

\* a triggered recording without stop_on_falling returned with two frames,
\* the first of them the triggered one
C15_Witness ==
    /\ pc = "rv_ret"
    /\ wait_first /\ ~cfg.stop_on_falling
    /\ cfg.target_frames = 2
    /\ frames_written = 2

----------------------------------------------------------------------------
(* Claims about next_2p_name.  The names a series consists of are written  *)
(* out here digit by digit, independently of the parsing and formatting of *)
(* the function.                                                           *)

\* the two-digit text of a counter 0..99, the text of a counter up to 999
TwoDigits(n) == <<DigitChars[(n \div 10) + 1], DigitChars[(n % 10) + 1]>>
CounterText(n) ==
    IF n <= 99 THEN TwoDigits(n)
    ELSE <<DigitChars[(n \div 100) + 1]>> \o TwoDigits(n % 100)

\* bp ends in a counter A##; the series base and the counter it embeds
HasCounterSuffix(bp) ==
    /\ Len(bp) >= 3
    /\ \E n \in 0..99 : SubSeq(bp, Len(bp) - 2, Len(bp)) = <<"A">> \o TwoDigits(n)
SeriesBase(bp) == IF HasCounterSuffix(bp) THEN SubSeq(bp, 1, Len(bp) - 3) ELSE bp
Embedded(bp) ==
    CHOOSE n \in 0..99 : SubSeq(bp, Len(bp) - 2, Len(bp)) = <<"A">> \o TwoDigits(n)

\* the counters of the series on disk, and the highest of them (0 if none)
OnDisk(listing, base, e) ==
    {n \in 0..99 : (base \o <<"A">> \o TwoDigits(n) \o e) \in listing}
Highest(listing, base, e) == MaxOf(OnDisk(listing, base, e) \cup {0})

\* C16: for a base prefix without counter suffix next_2p_name returns the
\* highest counter of the series on disk plus one (A01 when no file of the
\* series exists), whatever other files the directory holds.
C16_NextAfterHighest ==
    (out # NoName /\ ~HasCounterSuffix(base_prefix)) =>
        LET H == Highest(seen, base_prefix, ext)
        IN  /\ out.new_num = H + 1
            /\ out.stem = base_prefix \o <<"A">> \o CounterText(H + 1)
            /\ out.full_path = out.stem \o ext

\* A01 and A02 exist next to files that are not of the series: A03 is next
C16_Witness ==
    /\ base_prefix = <<"x">> /\ ext = Avi
    /\ OnDisk(seen, base_prefix, ext) = {1, 2}
    /\ Cardinality(seen) >= 4
    /\ out.stem = <<"x", "A", "0", "3">>

\* C17 as claimed: when the counter embedded in the base prefix exceeds every
\* counter on disk, the returned counter is the embedded counter plus one.
C17_EmbeddedPlusOne ==
    (out # NoName /\ HasCounterSuffix(base_prefix)
     /\ Embedded(base_prefix) > Highest(seen, SeriesBase(base_prefix), ext))
        => out.new_num = Embedded(base_prefix) + 1

\* C17 as amended: the returned counter is the larger of the embedded counter
\* and the highest counter on disk plus one; an embedded counter that exceeds
\* every counter on disk is itself the counter returned.
C17_EmbeddedRespected ==
    (out # NoName /\ HasCounterSuffix(base_prefix)) =>
        LET E == Embedded(base_prefix)
            H == Highest(seen, SeriesBase(base_prefix), ext)
        IN  /\ out.new_num = Max2(E, H + 1)
            /\ E > H => out.new_num = E
            /\ out.stem = SeriesBase(base_prefix) \o <<"A">>
                              \o CounterText(out.new_num)

\* base prefix xA05 with A01 and A02 on disk: the name returned is xA05
C17_Witness ==
    /\ base_prefix = <<"x", "A", "0", "5">>
    /\ Highest(seen, <<"x">>, ext) = 2
    /\ out.stem = <<"x", "A", "0", "5">>

\* C18: the path next_2p_name returns names no file that was in the
\* destination directory when it was called.
C18_NameIsFree == out # NoName => out.full_path \notin seen

\* C19: every recording gets a sequence number strictly greater than the
\* number of every earlier recording.
C19_NumbersNeverReused ==
    \A i, j \in 1..Len(rec_nums) : i < j => rec_nums[i] < rec_nums[j]

\* C20: every name returned is base + "A" + exactly two digits + ext, which
\* is the form the scan of the next call recognises.
C20_TwoDigitNames ==
    out # NoName =>
        \E n \in 0..99 :
            out.full_path = SeriesBase(base_prefix) \o <<"A">>
                                \o TwoDigits(n) \o ext

\* C21: a call of next_2p_name creates no file, leaves the destination
\* directory in existence, and returns what the previous call returned when
\* the directory has not changed since; on an empty directory and a base
\* without counter it returns base + A01 + ext every time.
C21_CallIsIdempotent ==
    [][(calls' = calls + 1) =>
          /\ files' = files
          /\ dir_present'
          /\ calls >= 1 => out' = out
          /\ (files = {} /\ ~HasCounterSuffix(base_prefix)) =>
                out'.full_path = base_prefix \o <<"A", "0", "1">> \o ext
      ]_vars

\* the second call in a row on an empty directory returned xA01.avi again
C21_Witness ==
    /\ calls = 2
    /\ files = {}
    /\ out.full_path = <<"x", "A", "0", "1">> \o Avi

\* C24: on every exit path of run() the camera list and the system instance
\* have been released exactly once, and no acquisition that was begun is
\* still running when the camera is de-initialised.
C24_ReleasedOnceAndStopped ==
    pc = "exited" => (cam.releases = 1 /\ ~cam.streaming)

\* C25: a call of configure_camera_for_freerun or
\* configure_camera_for_triggered completes whenever no mandatory setting
\* fails, whatever fails on PixelFormat, ExposureTime, Gain or the
\* AcquisitionStop trigger; it has then applied the mandatory trigger
\* setting, has left the node of every failed optional feature as it was,
\* and after a failed AcquisitionStop configuration _acq_stop_configured
\* is False and the AcquisitionStop trigger was not switched on.
C25_OptionalFailuresNotFatal ==
    [][prog = "config" =>
        /\ conf'.completed = ~conf'.fatal
        /\ (conf'.completed /\ conf'.fn = "freerun") =>
                nodemap'.TriggerMode[nodemap'.TriggerSelector] = "Off"
        /\ (conf'.completed /\ conf'.fn = "triggered") =>
                nodemap'.TriggerMode["AcquisitionStart"] = "On"
        /\ \A f \in conf'.skipped : optional'[f] = optional[f]
        /\ conf'.stop_failed =>
                /\ conf'.completed
                /\ acq_stop_configured' = FALSE
                /\ nodemap'.TriggerMode["AcquisitionStop"] = "On" =>
                        nodemap.TriggerMode["AcquisitionStop"] = "On"
      ]_vars

\* a triggered configuration completed although PixelFormat, ExposureTime,
\* Gain and the AcquisitionStop trigger all failed
C25_Witness ==
    /\ conf.fn = "triggered" /\ conf.completed /\ conf.stop_failed
    /\ conf.skipped = {"PixelFormat", "ExposureTime", "Gain"}
    /\ ~acq_stop_configured
    /\ nodemap.TriggerMode["AcquisitionStart"] = "On"
    /\ optional.PixelFormat = "default"

----------------------------------------------------------------------------
(* Claims about the edge detectors *)

\* the last sample before position i that was read without error
LastLevel(seq, i) ==
    LET J == {j \in 1..(i - 1) : seq[j] # "err"}
    IN  IF J = {} THEN "None"
        ELSE seq[CHOOSE j \in J : \A k \in J : k <= j]

\* the edge between sample i and the last sample read before it
EdgeAt(seq, i) ==
    IF seq[i] = "high" /\ LastLevel(seq, i) = "low" THEN "rising"
    ELSE IF seq[i] = "low" /\ LastLevel(seq, i) = "high" THEN "falling"
    ELSE "none"

\* C22 as stated: every detector reports rising exactly at a high sample
\* after a low one, falling exactly at a low sample after a high one, no
\* edge otherwise, and a failed read leaves the remembered sample unchanged
\* (a read error that leaves check_trigger as an exception counts as no
\* edge reported).
C22_EveryDetectorReportsBothEdges ==
    det # "none" =>
        /\ Len(reports) = Len(samples)
        /\ \A i \in 1..Len(samples) :
              \/ reports[i] = EdgeAt(samples, i)
              \/ reports[i] = "raise" /\ samples[i] = "err"
        /\ trig.prev_above = LastLevel(samples, Len(samples) + 1)

\* C22, amended: DAQEdgeMonitor and NIRiseFallTrigger report both edges as
\* stated; NIRiseOnlyTrigger reports the rising edges only, and a failed
\* read raises out of its check_trigger; every detector leaves the
\* remembered sample unchanged on a failed read.
C22_EdgesReported ==
    det # "none" =>
        /\ Len(reports) = Len(samples)
        /\ trig.prev_above = LastLevel(samples, Len(samples) + 1)
        /\ \A i \in 1..Len(samples) :
              IF det = "rise_only"
              THEN reports[i] = IF samples[i] = "err" THEN "raise"
                                ELSE IF EdgeAt(samples, i) = "rising"
                                     THEN "rising" ELSE "none"
              ELSE reports[i] = EdgeAt(samples, i)

\* the monitor was given [failed read, low, low, high, high, low]
C22_Witness ==
    /\ det = "monitor"
    /\ samples = <<"err", "low", "low", "high", "high", "low">>
    /\ reports = <<"none", "none", "none", "rising", "none", "falling">>

\* C29: whenever update() of NIRiseFallTrigger is called during a trial
\* (after check_trigger returned True) while the line is not above the
\* threshold, it issues a stop request; in the first trial and in every
\* later one.
C29_StopsEveryTrial ==
    (det = "rise_fall" /\ upd.line = "low") => upd.stop

----------------------------------------------------------------------------
(* Claims about the DAQ edge-triggered protocol *)

\* C23: the first sample taken after DAQEdgeMonitor.start() produces no
\* edge, and until it is processed both edge events stay clear.
C23_FirstSampleNoEdge ==
    /\ monobs.first_edge \in {"pending", "none"}
    /\ (proto.pc = "waiting" /\ ~monobs.taken) =>
            (~mon.rising_edge_event /\ ~mon.falling_edge_event)

\* C26: once a guarded_update has seen the falling edge during a sequence,
\* every later guarded_update of that sequence skips the original update,
\* and the falling-edge time is stamped once.
C26_AbortIsPermanent ==
    /\ (proto.pc = "sequence" /\ proto.sequence_aborted) =>
            trialobs.last_update = "skipped"
    /\ trialobs.stamps <= 1

\* C27: when a stimulus sequence ends, the protocol waits for the next
\* rising edge again, without Play.
C27_BackToWaiting ==
    [][(proto.pc = "sequence" /\ proto'.pc # "sequence") =>
            proto'.pc = "waiting"]_vars

\* C28: a start() call in which the rising edge arrived has flushed the logs
\* exactly once when it returns and not before, and the sequence_aborted
\* flag it saved is true exactly when a guarded_update of this trial saw the
\* falling edge.
C28_FlushedOncePerTrial ==
    /\ proto.pc \in {"waiting", "sequence"} => trialobs.flushes = 0
    /\ (proto.pc \in {"idle", "joining"} /\ trialobs.rose) =>
            /\ trialobs.flushes = 1
            /\ trialobs.saved = trialobs.saw_falling

\* a sequence that saw the falling edge and then raised was flushed once,
\* flag saved as true
C28_Witness ==
    /\ proto.pc = "idle"
    /\ trialobs.how = "exception"
    /\ trialobs.saw_falling
    /\ trialobs.flushes = 1
    /\ trialobs.saved = TRUE

----------------------------------------------------------------------------
(* Further claims about record_video and run() *)

\* C31: when record_video reaches recorder.Close(), and after it, at least
\* one frame was written (frames_written >= 1, so at least one frame was
\* appended), in free-run mode and in triggered mode; while no frame is
\* written the recording is never stopped.
C31_ClosedFileHasFrame ==
    /\ pc \in {"rv_close", "rv_ret"} => (frames_written >= 1 /\ appended >= 1)
    /\ closes >= 1 => appended >= 1
    /\ pc = "rv_wait" => (frames_written = 0 /\ stop_reason = "none")

\* a triggered recording that met a timeout before its first frame was
\* stopped by the line level and closed with frames in it
C31_Witness ==
    /\ pc = "rv_ret" /\ closes = 1
    /\ triggered_stop
    /\ t_first >= TimeoutS
    /\ stop_reason = "line_low"
    /\ frames_written >= 1

\* C32: in the triggered loop, once read_line_status has returned False
\* (line_status is LOW) no further frame is pulled and none is appended: the
\* level read after a pull is tested before the next pull.
C32_NoAppendAfterLow ==
    [][line_status = "LOW" => (pulls' = pulls /\ appended' = appended)]_vars

\* a triggered recording that read the line HIGH, wrote further frames, then
\* read it LOW and was closed
C32_Witness ==
    /\ pc = "rv_ret" /\ closes = 1
    /\ line_status = "LOW" /\ saw_high
    /\ stop_reason = "line_low"
    /\ frames_written >= 2

C34_EventsExclusive ==
    ~(mon.rising_edge_event /\ mon.falling_edge_event)

\* C35: at most one polling thread is alive at any time.
C35_OnePollingThread ==
    Cardinality({t \in Pollers : Alive(t)}) <= 1

----------------------------------------------------------------------------
(* Claims about the vigor-triggered blackout *)

\* C37: the blackout switches on only in a call where vigor >= the
\* threshold, off only where vigor <= threshold - hysteresis, never within
\* blackout_min_ms of the previous switch, and not at all in a call where
\* the vigor is unavailable.
C37_BlackoutHysteresis ==
    (prog = "vigor" /\ vobs.called) =>
        /\ (vobs.switched /\ stim.blackout) =>
                (vobs.vig.ok /\ vobs.vig.v >= stim.vigor_threshold)
        /\ (vobs.switched /\ ~stim.blackout) =>
                (vobs.vig.ok
                 /\ vobs.vig.v <= stim.vigor_threshold - stim.hysteresis)
        /\ vobs.switched =>
                stim.last_switch_ms - vobs.prev_switch >= stim.blackout_min_ms
        /\ ~vobs.vig.ok => ~vobs.switched

C37_Witness ==
    /\ prog = "vigor" /\ vobs.called /\ vobs.switched /\ ~stim.blackout
    /\ stim.hysteresis = 1
    /\ vobs.vig.v = stim.vigor_threshold - stim.hysteresis
    /\ vobs.prev_switch > EpochMs
    /\ stim.last_switch_ms - vobs.prev_switch = stim.blackout_min_ms

====
